---- MODULE Spec2Model ----
(***************************************************************************)
(* Legacy virtio-over-PCI transport of the hypervisor library              *)
(* (system/ulib/hypervisor/virtio.cpp): register dispatch, ring layout,    *)
(* the available/used ring handoff and the interrupt status byte.          *)
(*                                                                         *)
(* Three specifications share one state:                                   *)
(*   SpecReg   one vCPU thread issuing port reads and writes, each handler *)
(*             taken as one step (nothing runs beside it);                 *)
(*   SpecRing  the guest publishing into the available ring and a single   *)
(*             consumer calling virtio_queue_next_avail, with the real     *)
(*             16-bit counters;                                            *)
(*   SpecConc  a vCPU thread and a poll worker interleaved statement by    *)
(*             statement (locks, unlocked field writes of set_pfn).        *)
(***************************************************************************)
EXTENDS Integers, Sequences, FiniteSets, TLC

\* ----------------------------------------------------------------- bounds
\* Number of heads the guest publishes in one behaviour of SpecRing.
MaxPublish == 4
\* Number of QUEUE_PFN writes, QUEUE_NOTIFY writes, guest publishes and
\* ISR_STATUS reads in one behaviour of SpecConc.
MaxPfnWrites == 1
MaxNotifies == 1
MaxConcPublish == 1
MaxIsrReads == 2

\* ------------------------------------------------------ program constants
PAGE_SIZE == 4096
\* sizeof(queue->desc[0]): struct vring_desc {u64 addr; u32 len; u16 flags; u16 next}
DescSize == 16
\* sizeof(queue->avail), sizeof(queue->used), sizeof(queue->used_event),
\* sizeof(queue->avail_event): each member is a pointer (it is assigned a
\* reinterpret_cast<decltype(member)> of an address), so sizeof is 8 on the
\* 64-bit hosts the hypervisor runs on.
PtrSize == 8
\* sizeof(queue->avail->ring[0]): uint16_t
AvailElemSize == 2
\* sizeof(queue->used->ring[0]): struct vring_used_elem {u32 id; u32 len}
UsedElemSize == 8
VIRTIO_ISR_QUEUE == 1
\* uint16_t counters (avail->idx, used->idx, queue->index) count modulo 2^16.
U16 == 65536
\* queue->pfn * PAGE_SIZE is a uint32_t product: it is taken modulo 2^32,
\* which is (pfn modulo 2^20) * 4096.
PfnWrap == 1048576

NULL == 0
\* The one virtio_device_t of the model, as the value of queue->virtio_device.
DEVICE == 1
\* Thread ids (0 is "no owner", the value of a zeroed or unlocked mutex).
VCPU == 1
WORKER == 2

MX_OK == "MX_OK"
MX_ERR_NOT_SUPPORTED == "MX_ERR_NOT_SUPPORTED"
MX_ERR_IO_DATA_INTEGRITY == "MX_ERR_IO_DATA_INTEGRITY"
MX_ERR_INVALID_ARGS == "MX_ERR_INVALID_ARGS"
MX_ERR_OUT_OF_RANGE == "MX_ERR_OUT_OF_RANGE"
MX_ERR_NOT_FOUND == "MX_ERR_NOT_FOUND"
MX_ERR_INTERNAL == "MX_ERR_INTERNAL"
MX_ERR_STOP == "MX_ERR_STOP"
MX_ERR_NEXT == "MX_ERR_NEXT"
\* No status: the call did not return (the process faulted).
NoReturn == "no_return"

\* ------------------------------------------------------------------ state
VARIABLES
    \* virtio_device_t
    features, status, queue_sel, isr_status, num_queues, queue_notify,
    guest_physmem_addr, guest_physmem_size, dev_mutex,
    \* virtio_queue_t queues[]: pfn, size, index, virtio_device, the five
    \* pointers, mutex (owner), avail_ring_cnd (set of sleeping threads)
    queues,
    \* guest memory the rings of queue 0 live in
    avail_idx, avail_ring, used_idx, used_ring,
    \* guest memory of the descriptor table of queue 0: per index the
    \* descriptor's addr, len, has_next (VRING_DESC_F_NEXT) and next
    desc_table,
    \* the process took a fault (null dereference, division by zero)
    crashed,
    \* the last port access or queue call: its kind, port and width (last_op),
    \* its status and its outputs
    last_op, ret, vcpu_io, events, head_out,
    \* history: queues on which a set_pfn has failed; heads published and not
    \* yet consumed; number of publishes so far
    failed_q, pending, npub,
    \* SpecConc: program counters and locals of the threads, and history
    pc, local, hist

devVars == <<features, status, queue_sel, isr_status, num_queues, queue_notify,
             guest_physmem_addr, guest_physmem_size, dev_mutex>>
memVars == <<avail_idx, avail_ring, used_idx, used_ring>>
opVars == <<last_op, ret, vcpu_io, events, head_out>>
histVars == <<failed_q, pending, npub>>
concVars == <<pc, local, hist>>
vars == <<devVars, queues, memVars, desc_table, crashed, opVars, histVars,
          concVars>>

\* Largest number of queues of a device of the model.
QueueSlots == 1
\* Ring size the device model gives a queue before the guest writes QUEUE_SIZE.
DefaultSize == 4
QueueIds == 0 .. (QueueSlots - 1)

\* memset(queue, 0, sizeof(*queue)): every member zero.
ZeroQueue ==
    [pfn |-> 0, size |-> 0, index |-> 0, virtio_device |-> NULL,
     desc |-> NULL, avail |-> NULL, used_event |-> NULL, used |-> NULL,
     avail_event |-> NULL, mutex |-> 0, avail_ring_cnd |-> {}]

\* A queue as the device model hands it to the transport: owner set, ring
\* size chosen by the device, no ring address yet.
FreshQueue(n) == [ZeroQueue EXCEPT !.size = n, !.virtio_device = DEVICE]

\* ------------------------------------------------------------ ring layout
PCI_ALIGN(n) == ((n + 4095) \div 4096) * 4096

\* guest_paddr_to_host_vaddr(device, addr)
guest_paddr_to_host_vaddr(addr) == guest_physmem_addr + addr

\* The guest-physical addresses virtio_queue_set_pfn computes for a ring of
\* `size` entries at page frame `pfn`.
RingLayout(pfn, size) ==
    LET desc_paddr == (pfn % PfnWrap) * PAGE_SIZE
        desc_size == size * DescSize
        avail_paddr == desc_paddr + desc_size
        avail_size == PtrSize + size * AvailElemSize
        used_event_paddr == avail_paddr + avail_size
        used_event_size == PtrSize
        used_paddr == PCI_ALIGN(used_event_paddr + used_event_size)
        used_size == PtrSize + size * UsedElemSize
        avail_event_paddr == used_paddr + used_size
        avail_event_size == PtrSize
    IN  [desc_paddr |-> desc_paddr, desc_size |-> desc_size,
         avail_paddr |-> avail_paddr, avail_size |-> avail_size,
         used_event_paddr |-> used_event_paddr, used_event_size |-> used_event_size,
         used_paddr |-> used_paddr, used_size |-> used_size,
         avail_event_paddr |-> avail_event_paddr,
         avail_event_size |-> avail_event_size]

\* The queue after the assignments of virtio_queue_set_pfn, before its check.
SetPfnFields(q, pfn) ==
    LET l == RingLayout(pfn, q.size)
    IN  [q EXCEPT !.pfn = pfn,
                  !.desc = guest_paddr_to_host_vaddr(l.desc_paddr),
                  !.avail = guest_paddr_to_host_vaddr(l.avail_paddr),
                  !.used_event = guest_paddr_to_host_vaddr(l.used_event_paddr),
                  !.used = guest_paddr_to_host_vaddr(l.used_paddr),
                  !.avail_event = guest_paddr_to_host_vaddr(l.avail_event_paddr)]

\* A set_pfn whose check looks at the end of the descriptor table only.
SetPfnOutOfRangeDescOnly(q, pfn) ==
    LET l == RingLayout(pfn, q.size)
        end == guest_paddr_to_host_vaddr(l.desc_paddr) + l.desc_size
    IN  end < l.desc_paddr \/ end > guest_physmem_addr + guest_physmem_size

\* The check of virtio_queue_set_pfn: TRUE when the ring is refused.
\* (uintptr_t is 64 bits wide; no modelled address comes near 2^64, so the
\* sums are the mathematical ones.)
SetPfnOutOfRange(q, pfn) ==
    LET l == RingLayout(pfn, q.size)
        end == guest_paddr_to_host_vaddr(l.avail_event_paddr) + l.avail_event_size
    IN  end < l.desc_paddr \/ end > guest_physmem_addr + guest_physmem_size


\* ---------------------------------------------------------------- helpers
\* device->isr_status |= VIRTIO_ISR_QUEUE (bit 0)
OrQueueBit(x) == IF x % 2 = 1 THEN x ELSE x + VIRTIO_ISR_QUEUE

\* The queue bit is set in isr.
HasQueueBit(isr) == isr = OrQueueBit(isr)

\* The value of a null virtio_queue_t*, as a queue index.
NoQueue == 0 - 1

\* No port access yet; a access that answers nothing.
NoOp == [kind |-> "none", port |-> "none", size |-> 0]
NoIo == [access_size |-> 0, val |-> 0]

\* selected_queue(device): the index of the selected queue, or NoQueue.
selected_queue == IF queue_sel < num_queues THEN queue_sel ELSE NoQueue

\* ring_index(queue, index); the caller checks q.size # 0 (a zero size is a
\* division by zero, a fault).
ring_index(q, index) == index % q.size

\* ring_avail_count(queue): an int, the difference of the two uint16_t
\* counters after integer promotion (no reduction modulo 2^16).
ring_avail_count(qi) ==
    IF queues[qi].avail = NULL THEN 0 ELSE avail_idx[qi] - queues[qi].index

\* ------------------------------------------------- register access (SpecReg)
Ports == {"DEVICE_FEATURES", "DRIVER_FEATURES", "QUEUE_PFN", "QUEUE_SIZE",
          "QUEUE_SELECT", "QUEUE_NOTIFY", "DEVICE_STATUS", "ISR_STATUS",
          "DEVICE_CFG"}
Bars == {0, 1}
AccessSizes == {1, 2, 4}
\* Page frame numbers the guest writes: rings that fit, rings that do not,
\* and one whose byte address does not fit in 32 bits.
Pfns == {0, 2, PfnWrap}
\* Ring sizes the guest writes.
Sizes == {0, DefaultSize}
\* Values the guest writes to a port.
WriteVals(port) ==
    CASE port = "DRIVER_FEATURES" -> {features, features + 1}
      [] port = "DEVICE_STATUS" -> {0, 3}
      [] port = "QUEUE_PFN" -> Pfns
      [] port = "QUEUE_SIZE" -> Sizes
      [] port = "QUEUE_SELECT" -> 0 .. QueueSlots
      [] port = "QUEUE_NOTIFY" -> 0 .. QueueSlots
      [] OTHER -> {0}

\* What every step of SpecReg leaves alone.
RegFrame ==
    UNCHANGED <<features, num_queues, queue_notify, guest_physmem_addr,
                guest_physmem_size, dev_mutex, memVars, desc_table, head_out,
                pending, npub, concVars>>

\* The handler returns r and has changed nothing.
Return(r) ==
    /\ ret' = r
    /\ events' = <<>>
    /\ UNCHANGED <<status, queue_sel, isr_status, queues, crashed, failed_q>>

\* The handler dereferences a null pointer: the load or store is to the
\* unmapped page at address 0, the process takes the fault and ends.
Fault ==
    /\ crashed' = TRUE
    /\ ret' = NoReturn
    /\ events' = <<>>
    /\ UNCHANGED <<status, queue_sel, isr_status, queues, failed_q>>

\* virtio_queue_set_pfn(queue, pfn) run to its end with nothing beside it.
virtio_queue_set_pfn(qi, pfn) ==
    LET q == queues[qi]
    IN  IF q.virtio_device = NULL
        THEN Fault
        ELSE /\ IF SetPfnOutOfRange(q, pfn)
                THEN /\ queues' = [queues EXCEPT ![qi] = ZeroQueue]
                     /\ failed_q' = failed_q \cup {qi}
                     /\ ret' = MX_ERR_OUT_OF_RANGE
                ELSE /\ queues' = [queues EXCEPT ![qi] = SetPfnFields(q, pfn)]
                     /\ failed_q' = failed_q
                     /\ ret' = MX_OK
             /\ events' = <<>>
             /\ UNCHANGED <<status, queue_sel, isr_status, crashed>>

WriteDriverFeatures(io) ==
    IF io.access_size # 4 THEN Return(MX_ERR_IO_DATA_INTEGRITY)
    ELSE IF io.val # features THEN Return(MX_ERR_INVALID_ARGS)
    ELSE Return(MX_OK)

WriteDeviceStatus(io) ==
    IF io.access_size # 1 THEN Return(MX_ERR_IO_DATA_INTEGRITY)
    ELSE /\ status' = io.val
         /\ ret' = MX_OK
         /\ events' = <<>>
         /\ UNCHANGED <<queue_sel, isr_status, queues, crashed, failed_q>>

WriteQueuePfn(io) ==
    IF io.access_size # 4 THEN Return(MX_ERR_IO_DATA_INTEGRITY)
    ELSE IF selected_queue = NoQueue THEN Return(MX_ERR_NOT_SUPPORTED)
    ELSE virtio_queue_set_pfn(selected_queue, io.val)

\* A QUEUE_SIZE case that does not look at the access width.
WriteQueueSizeAnyWidth(io) ==
    IF selected_queue = NoQueue
    THEN Fault
    ELSE /\ queues' = [queues EXCEPT ![selected_queue].size = io.val]
         /\ ret' = MX_OK
         /\ events' = <<>>
         /\ UNCHANGED <<status, queue_sel, isr_status, crashed, failed_q>>

WriteQueueSize(io) ==
    IF io.access_size # 2 THEN Return(MX_ERR_IO_DATA_INTEGRITY)
    ELSE IF selected_queue = NoQueue
    THEN Fault
    ELSE /\ queues' = [queues EXCEPT ![selected_queue].size = io.val]
         /\ ret' = MX_OK
         /\ events' = <<>>
         /\ UNCHANGED <<status, queue_sel, isr_status, crashed, failed_q>>

\* A QUEUE_SELECT case that stores the index without comparing it with
\* num_queues.
WriteQueueSelectAnyIndex(io) ==
    IF io.access_size # 2 THEN Return(MX_ERR_IO_DATA_INTEGRITY)
    ELSE /\ queue_sel' = io.val
         /\ ret' = MX_OK
         /\ events' = <<>>
         /\ UNCHANGED <<status, isr_status, queues, crashed, failed_q>>

WriteQueueSelect(io) ==
    IF io.access_size # 2 THEN Return(MX_ERR_IO_DATA_INTEGRITY)
    ELSE IF io.val >= num_queues THEN Return(MX_ERR_NOT_SUPPORTED)
    ELSE /\ queue_sel' = io.val
         /\ ret' = MX_OK
         /\ events' = <<>>
         /\ UNCHANGED <<status, isr_status, queues, crashed, failed_q>>

\* virtio_queue_signal(queue) run to its end: the call, and the cnd_signal it
\* makes when the ring holds an entry.
SignalEvents(qi) ==
    IF ring_avail_count(qi) > 0 THEN <<"signal", "cnd_signal">> ELSE <<"signal">>

\* The QUEUE_NOTIFY case after its two checks. The device's queue_notify
\* callback is the device model's: it returns a status of its choice and, when
\* it processes the queue, virtio_queue_return sets the queue bit of
\* isr_status. pci_interrupt is the PCI bus model's and returns a status too.
NotifyQueue(qi) ==
    IF queue_notify
    THEN \E cb_status \in {MX_OK, MX_ERR_INTERNAL},
            isr \in {isr_status, OrQueueBit(isr_status)} :
            /\ isr_status' = isr
            /\ UNCHANGED <<status, queue_sel, queues, crashed, failed_q>>
            /\ IF cb_status # MX_OK
               THEN /\ ret' = cb_status
                    /\ events' = <<"queue_notify">>
               ELSE IF isr > 0
               THEN /\ ret' \in {MX_OK, MX_ERR_INTERNAL}
                    /\ events' = <<"queue_notify", "pci_interrupt">>
               ELSE /\ ret' = MX_OK
                    /\ events' = <<"queue_notify">> \o SignalEvents(qi)
    ELSE /\ ret' = MX_OK
         /\ events' = SignalEvents(qi)
         /\ UNCHANGED <<status, queue_sel, isr_status, queues, crashed, failed_q>>

WriteQueueNotify(io) ==
    IF io.access_size # 2 THEN Return(MX_ERR_IO_DATA_INTEGRITY)
    ELSE IF io.val >= num_queues THEN Return(MX_ERR_NOT_SUPPORTED)
    ELSE NotifyQueue(io.val)

\* device->ops->read / device->ops->write: the device model's configuration
\* space, which touches nothing of the transport.
DeviceCfgAccess(kind) ==
    /\ ret' \in {MX_OK, MX_ERR_NOT_SUPPORTED}
    /\ events' = <<kind>>
    /\ UNCHANGED <<status, queue_sel, isr_status, queues, crashed, failed_q>>

virtio_pci_legacy_write(bar, port, io) ==
    /\ ~crashed
    /\ last_op' = [kind |-> IF bar = 0 THEN "write" ELSE "write_other_bar",
                    port |-> port, size |-> io.access_size]
    /\ vcpu_io' = NoIo
    /\ RegFrame
    /\ IF bar # 0 THEN Return(MX_ERR_NOT_SUPPORTED)
       ELSE CASE port = "DRIVER_FEATURES" -> WriteDriverFeatures(io)
              [] port = "DEVICE_STATUS" -> WriteDeviceStatus(io)
              [] port = "QUEUE_PFN" -> WriteQueuePfn(io)
              [] port = "QUEUE_SIZE" -> WriteQueueSize(io)
              [] port = "QUEUE_SELECT" -> WriteQueueSelect(io)
              [] port = "QUEUE_NOTIFY" -> WriteQueueNotify(io)
              [] port = "DEVICE_CFG" -> DeviceCfgAccess("ops_write")
              [] OTHER -> Return(MX_ERR_NOT_SUPPORTED)

\* A read that answers: the handler sets the width and the value.
Answer(size, val) ==
    /\ vcpu_io' = [access_size |-> size, val |-> val]
    /\ Return(MX_OK)

ReadQueuePfn ==
    IF selected_queue = NoQueue
    THEN vcpu_io' = NoIo /\ Return(MX_ERR_NOT_SUPPORTED)
    ELSE Answer(4, queues[selected_queue].pfn)

ReadQueueSize ==
    IF selected_queue = NoQueue
    THEN vcpu_io' = NoIo /\ Return(MX_ERR_NOT_SUPPORTED)
    ELSE Answer(2, queues[selected_queue].size)

\* The ISR_STATUS case: value read and byte cleared under device->mutex.
ReadIsrStatus ==
    /\ vcpu_io' = [access_size |-> 1, val |-> isr_status]
    /\ isr_status' = 0
    /\ ret' = MX_OK
    /\ events' = <<>>
    /\ UNCHANGED <<status, queue_sel, queues, crashed, failed_q>>

virtio_pci_legacy_read(bar, port) ==
    /\ ~crashed
    /\ last_op' = [kind |-> "read", port |-> port, size |-> 0]
    /\ RegFrame
    /\ IF bar # 0 THEN vcpu_io' = NoIo /\ Return(MX_ERR_NOT_SUPPORTED)
       ELSE CASE port = "DEVICE_FEATURES" -> Answer(4, features)
              [] port = "QUEUE_PFN" -> ReadQueuePfn
              [] port = "QUEUE_SIZE" -> ReadQueueSize
              [] port = "DEVICE_STATUS" -> Answer(1, status)
              [] port = "ISR_STATUS" -> ReadIsrStatus
              [] port = "DEVICE_CFG" ->
                    vcpu_io' = NoIo /\ DeviceCfgAccess("ops_read")
              [] OTHER -> vcpu_io' = NoIo /\ Return(MX_ERR_NOT_SUPPORTED)

\* Guest memory sizes of the model (bytes) and the host address it is mapped at.
GuestSizes == {12288}
GuestBases == {65536}


\* The state every specification starts from, but for the fields it draws.
InitCommon ==
    /\ features = 0
    /\ status = 0
    /\ queue_sel = 0
    /\ isr_status = 0
    /\ dev_mutex = 0
    /\ guest_physmem_addr \in GuestBases
    /\ guest_physmem_size \in GuestSizes
    /\ used_idx = [q \in QueueIds |-> 0]
    /\ used_ring = [q \in QueueIds |-> <<>>]
    /\ desc_table = <<>>
    /\ crashed = FALSE
    /\ last_op = NoOp
    /\ ret = MX_OK
    /\ vcpu_io = NoIo
    /\ events = <<>>
    /\ head_out = 0
    /\ failed_q = {}
    /\ pending = <<>>
    /\ npub = 0

InitReg ==
    /\ InitCommon
    /\ num_queues \in {0, QueueSlots}
    /\ queue_notify \in BOOLEAN
    /\ queues = [q \in QueueIds |-> FreshQueue(DefaultSize)]
    /\ avail_idx = [q \in QueueIds |-> IF q = 0 THEN 1 ELSE 0]
    /\ avail_ring = [q \in QueueIds |-> <<>>]
    /\ pc = <<>>
    /\ local = <<>>
    /\ hist = <<>>

\* The width the legacy register table gives each port.
Width(port) ==
    CASE port \in {"DEVICE_FEATURES", "DRIVER_FEATURES", "QUEUE_PFN"} -> 4
      [] port \in {"QUEUE_SIZE", "QUEUE_SELECT", "QUEUE_NOTIFY"} -> 2
      [] port \in {"DEVICE_STATUS", "ISR_STATUS"} -> 1
      [] OTHER -> 1

\* Accesses of BAR 0 with every width and value; of another BAR, one
\* well-formed access per port (the handler looks at nothing else first).
NextReg ==
    \/ \E port \in Ports, size \in AccessSizes :
          \E val \in WriteVals(port) :
             virtio_pci_legacy_write(0, port, [access_size |-> size, val |-> val])
    \/ \E port \in Ports :
          virtio_pci_legacy_write(1, port, [access_size |-> Width(port), val |-> 0])
    \/ \E bar \in Bars, port \in Ports : virtio_pci_legacy_read(bar, port)

SpecReg == InitReg /\ [][NextReg]_vars


\* ------------------------------------------- available ring (SpecRing)
\* Ring sizes of SpecRing, descriptor heads the guest publishes, and the
\* values the two counters start from: 0 (a new ring) and two short of the
\* 16-bit wrap (the ring after 65534 buffers have gone through it).
RingSizes == {2, 4}
Heads == {0, 2}
StartIdx == {0, U16 - 2}

\* What every step of SpecRing leaves alone.
RingFrame ==
    UNCHANGED <<devVars, used_idx, used_ring, desc_table, vcpu_io, events,
                failed_q, concVars>>

\* The guest publishes one buffer: it stores the head in the next slot of the
\* available ring and then increments avail->idx (a uint16_t). A guest that
\* keeps to the protocol has at most `size` buffers outstanding.
GuestPublish(head) ==
    /\ ~crashed
    /\ npub < MaxPublish
    /\ Len(pending) < queues[0].size
    /\ avail_ring' = [avail_ring EXCEPT ![0][avail_idx[0] % queues[0].size] = head]
    /\ avail_idx' = [avail_idx EXCEPT ![0] = (avail_idx[0] + 1) % U16]
    /\ pending' = Append(pending, head)
    /\ npub' = npub + 1
    /\ last_op' = [kind |-> "publish", port |-> "none", size |-> 0]
    /\ UNCHANGED <<queues, crashed, ret, head_out>>
    /\ RingFrame

\* virtio_queue_next_avail(queue, &index) on queue 0, by the one consumer:
\* virtio_queue_next_avail_locked between mtx_lock and mtx_unlock.
virtio_queue_next_avail ==
    /\ ~crashed
    /\ last_op' = [kind |-> "next_avail", port |-> "none", size |-> 0]
    /\ RingFrame
    /\ UNCHANGED <<avail_idx, avail_ring, npub>>
    /\ IF ring_avail_count(0) < 1
       THEN /\ ret' = MX_ERR_NOT_FOUND
            /\ UNCHANGED <<queues, head_out, pending, crashed>>
       ELSE IF queues[0].size = 0
       THEN /\ crashed' = TRUE
            /\ ret' = NoReturn
            /\ UNCHANGED <<queues, head_out, pending>>
       ELSE /\ LET slot == ring_index(queues[0], queues[0].index)
               IN  IF slot \in DOMAIN avail_ring[0]
                   THEN head_out' = avail_ring[0][slot]
                   ELSE head_out' \in Heads
            /\ queues' = [queues EXCEPT ![0].index = (queues[0].index + 1) % U16]
            /\ pending' = IF pending = <<>> THEN pending ELSE Tail(pending)
            /\ ret' = MX_OK
            /\ UNCHANGED crashed

InitRing ==
    /\ InitCommon
    /\ num_queues = QueueSlots
    /\ queue_notify = FALSE
    /\ \E n \in RingSizes, start \in StartIdx :
          /\ queues = [q \in QueueIds |->
                         IF q = 0
                         THEN [SetPfnFields(FreshQueue(n), 0) EXCEPT !.index = start]
                         ELSE FreshQueue(n)]
          /\ avail_idx = [q \in QueueIds |-> IF q = 0 THEN start ELSE 0]
          /\ avail_ring = [q \in QueueIds |-> [i \in 0 .. (n - 1) |-> 0]]
    /\ pc = <<>>
    /\ local = <<>>
    /\ hist = <<>>

NextRing ==
    \/ \E head \in Heads : GuestPublish(head)
    \/ virtio_queue_next_avail

SpecRing == InitRing /\ [][NextRing]_vars

\* ------------------------------------- threads side by side (SpecConc)
\* One vCPU thread delivers the guest's port accesses to queue 0 of a device
\* without a queue_notify callback (ISR_STATUS reads, QUEUE_PFN writes,
\* QUEUE_NOTIFY writes); one detached worker runs virtio_queue_poll_task on
\* that queue. A step is one statement that touches shared state; stores to
\* members no other thread reads (pfn, used_event, avail_event) go with the
\* step before them.
Threads == {VCPU, WORKER}
\* Page frames the guest writes in SpecConc: two rings that fit, one that
\* does not.
ConcPfns == {0, 1, 2}

\* Never changed by a step of SpecConc.
ConcFrame ==
    UNCHANGED <<features, status, queue_sel, num_queues, queue_notify,
                guest_physmem_addr, guest_physmem_size, last_op, ret, events,
                head_out, failed_q, desc_table>>

VcpuLocal0 == [pfn |-> 0, isr_val |-> 0, prev_val |-> 0, after_set |-> FALSE]
WorkerLocal0 == [seen_avail |-> NULL, seen_avail2 |-> NULL, seen_used |-> NULL,
                 head |-> 0, status |-> MX_OK, result |-> MX_OK]

Goto(t, label) == pc' = [pc EXCEPT ![t] = label]

\* A thread dereferences a null pointer or divides by zero: the process ends.
ConcFault ==
    /\ crashed' = TRUE
    /\ UNCHANGED <<isr_status, dev_mutex, queues, memVars, vcpu_io, pending,
                   npub, pc, local, hist>>

\* The pointers of a queue record that other threads read.
Views(q) == [desc |-> q.desc, avail |-> q.avail, used |-> q.used]

\* [p, p + len) lies in guest memory.
InGuest(p, len) ==
    guest_physmem_addr <= p /\ p + len <= guest_physmem_addr + guest_physmem_size

\* ---- the guest
\* The guest publishes a buffer in its available ring (see GuestPublish).
ConcPublish(head) ==
    /\ ~crashed
    /\ npub < MaxConcPublish
    /\ queues[0].size > 0
    /\ Len(pending) < queues[0].size
    /\ avail_ring' = [avail_ring EXCEPT ![0][avail_idx[0] % queues[0].size] = head]
    /\ avail_idx' = [avail_idx EXCEPT ![0] = (avail_idx[0] + 1) % U16]
    /\ pending' = Append(pending, head)
    /\ npub' = npub + 1
    /\ UNCHANGED <<isr_status, dev_mutex, queues, used_idx, used_ring, crashed,
                   vcpu_io, pc, local, hist>>
    /\ ConcFrame

\* ---- vCPU thread: read of ISR_STATUS (virtio_pci_legacy_read)
\* A read that does not take device->mutex.
IsrLockNoMutex ==
    /\ ~crashed
    /\ pc[VCPU] = "idle"
    /\ hist.isr_reads < MaxIsrReads
    /\ hist' = [hist EXCEPT !.isr_reads = @ + 1]
    /\ Goto(VCPU, "isr_read")
    /\ UNCHANGED <<isr_status, dev_mutex, queues, memVars, crashed, vcpu_io, pending,
                   npub, local>>
    /\ ConcFrame

\* mtx_lock(&device->mutex)
IsrLock ==
    /\ ~crashed
    /\ pc[VCPU] = "idle"
    /\ hist.isr_reads < MaxIsrReads
    /\ dev_mutex = 0
    /\ dev_mutex' = VCPU
    /\ hist' = [hist EXCEPT !.isr_reads = @ + 1]
    /\ Goto(VCPU, "isr_read")
    /\ UNCHANGED <<isr_status, queues, memVars, crashed, vcpu_io, pending,
                   npub, local>>
    /\ ConcFrame

\* vcpu_io->u8 = device->isr_status
IsrRead ==
    /\ ~crashed
    /\ pc[VCPU] = "isr_read"
    /\ vcpu_io' = [access_size |-> 1, val |-> isr_status]
    /\ local' = [local EXCEPT ![VCPU].isr_val = isr_status,
                              ![VCPU].prev_val = local[VCPU].isr_val,
                              ![VCPU].after_set = hist.set_since_read]
    /\ hist' = [hist EXCEPT
                  !.set_since_read = FALSE,
                  !.bit_pending = IF isr_status % 2 = 1 THEN FALSE ELSE @]
    /\ Goto(VCPU, "isr_clear")
    /\ UNCHANGED <<isr_status, dev_mutex, queues, memVars, crashed, pending, npub>>
    /\ ConcFrame

\* A read that leaves the byte as it is.
IsrNoClear ==
    /\ ~crashed
    /\ pc[VCPU] = "isr_clear"
    /\ Goto(VCPU, "isr_unlock")
    /\ UNCHANGED <<isr_status, dev_mutex, queues, memVars, crashed, vcpu_io, pending,
                   npub, local, hist>>
    /\ ConcFrame

\* device->isr_status = 0
IsrClear ==
    /\ ~crashed
    /\ pc[VCPU] = "isr_clear"
    /\ isr_status' = 0
    /\ Goto(VCPU, "isr_unlock")
    /\ UNCHANGED <<dev_mutex, queues, memVars, crashed, vcpu_io, pending,
                   npub, local, hist>>
    /\ ConcFrame

\* mtx_unlock(&device->mutex); return MX_OK
IsrUnlock ==
    /\ ~crashed
    /\ pc[VCPU] = "isr_unlock"
    /\ dev_mutex' = 0
    /\ Goto(VCPU, "idle")
    /\ UNCHANGED <<isr_status, queues, memVars, crashed, vcpu_io, pending,
                   npub, local, hist>>
    /\ ConcFrame

\* ---- vCPU thread: write of QUEUE_PFN (virtio_queue_set_pfn, no lock taken)
\* device = queue->virtio_device and its two loads; queue->pfn = pfn.
SetPfnEnter(pfn) ==
    /\ ~crashed
    /\ pc[VCPU] = "idle"
    /\ hist.pfn_writes < MaxPfnWrites
    /\ ConcFrame
    /\ IF queues[0].virtio_device = NULL
       THEN ConcFault
       ELSE /\ queues' = [queues EXCEPT ![0].pfn = pfn]
            /\ local' = [local EXCEPT ![VCPU].pfn = pfn]
            /\ hist' = [hist EXCEPT !.pfn_writes = @ + 1]
            /\ Goto(VCPU, "pfn_desc")
            /\ UNCHANGED <<isr_status, dev_mutex, memVars, crashed, vcpu_io,
                           pending, npub>>

\* The store of one of the three pointers other threads read (and of the
\* event pointer computed after it), as SetPfnFields computes it.
SetPfnStore(at, next) ==
    /\ ~crashed
    /\ pc[VCPU] = at
    /\ LET new == SetPfnFields(queues[0], queues[0].pfn)
       IN  queues' =
             [queues EXCEPT ![0] =
                CASE at = "pfn_desc" -> [@ EXCEPT !.desc = new.desc]
                  [] at = "pfn_avail" ->
                        [@ EXCEPT !.avail = new.avail, !.used_event = new.used_event]
                  [] at = "pfn_used" ->
                        [@ EXCEPT !.used = new.used, !.avail_event = new.avail_event]]
    /\ Goto(VCPU, next)
    /\ UNCHANGED <<isr_status, dev_mutex, memVars, crashed, vcpu_io, pending,
                   npub, local, hist>>
    /\ ConcFrame

\* The bounds check, and memset(queue, 0, sizeof(*queue)) when it fails: the
\* mutex and the condition variable of the queue are zeroed with the rest.
SetPfnCheck ==
    /\ ~crashed
    /\ pc[VCPU] = "pfn_check"
    /\ IF SetPfnOutOfRange(queues[0], queues[0].pfn)
       THEN /\ queues' = [queues EXCEPT ![0] = ZeroQueue]
            /\ UNCHANGED hist
       ELSE /\ hist' = [hist EXCEPT !.validated = @ \cup {Views(queues[0])}]
            /\ UNCHANGED queues
    /\ Goto(VCPU, "idle")
    /\ UNCHANGED <<isr_status, dev_mutex, memVars, crashed, vcpu_io, pending,
                   npub, local>>
    /\ ConcFrame

\* ---- vCPU thread: write of QUEUE_NOTIFY (virtio_queue_signal)
\* mtx_lock(&queue->mutex)
SignalLock ==
    /\ ~crashed
    /\ pc[VCPU] = "idle"
    /\ hist.notifies < MaxNotifies
    /\ queues[0].mutex = 0
    /\ queues' = [queues EXCEPT ![0].mutex = VCPU]
    /\ hist' = [hist EXCEPT !.notifies = @ + 1]
    /\ Goto(VCPU, "sig_check")
    /\ UNCHANGED <<isr_status, dev_mutex, memVars, crashed, vcpu_io, pending,
                   npub, local>>
    /\ ConcFrame

\* if (ring_avail_count(queue) > 0) cnd_signal(&queue->avail_ring_cnd):
\* one sleeping thread (there is at most one) is made runnable.
SignalCheck ==
    /\ ~crashed
    /\ pc[VCPU] = "sig_check"
    /\ IF ring_avail_count(0) > 0 /\ queues[0].avail_ring_cnd # {}
       THEN /\ queues' = [queues EXCEPT ![0].avail_ring_cnd = {}]
            /\ pc' = [t \in Threads |->
                        IF t = VCPU THEN "sig_unlock"
                        ELSE IF t \in queues[0].avail_ring_cnd THEN "w_relock"
                        ELSE pc[t]]
       ELSE /\ UNCHANGED queues
            /\ Goto(VCPU, "sig_unlock")
    /\ UNCHANGED <<isr_status, dev_mutex, memVars, crashed, vcpu_io, pending,
                   npub, local, hist>>
    /\ ConcFrame

\* mtx_unlock(&queue->mutex)
SignalUnlock ==
    /\ ~crashed
    /\ pc[VCPU] = "sig_unlock"
    /\ queues' = [queues EXCEPT ![0].mutex = 0]
    /\ Goto(VCPU, "idle")
    /\ UNCHANGED <<isr_status, dev_mutex, memVars, crashed, vcpu_io, pending,
                   npub, local, hist>>
    /\ ConcFrame

\* ---- worker thread: virtio_queue_poll_task
\* virtio_queue_wait: mtx_lock(&queue->mutex), and the lock cnd_wait takes
\* again once the thread has been signalled.
WaitLock ==
    /\ ~crashed
    /\ pc[WORKER] \in {"w_lock", "w_relock"}
    /\ queues[0].mutex = 0
    /\ queues' = [queues EXCEPT ![0].mutex = WORKER]
    /\ local' = [local EXCEPT ![WORKER] = WorkerLocal0]
    /\ Goto(WORKER, "w_count")
    /\ UNCHANGED <<isr_status, dev_mutex, memVars, crashed, vcpu_io, pending,
                   npub, hist>>
    /\ ConcFrame

\* virtio_queue_next_avail_locked: ring_avail_count(queue) < 1
WaitCount ==
    /\ ~crashed
    /\ pc[WORKER] = "w_count"
    /\ local' = [local EXCEPT ![WORKER].seen_avail = queues[0].avail]
    /\ Goto(WORKER, IF ring_avail_count(0) < 1 THEN "w_wait" ELSE "w_take")
    /\ UNCHANGED <<isr_status, dev_mutex, queues, memVars, crashed, vcpu_io,
                   pending, npub, hist>>
    /\ ConcFrame

\* *index = queue->avail->ring[ring_index(queue, queue->index++)]
WaitTake ==
    /\ ~crashed
    /\ pc[WORKER] = "w_take"
    /\ ConcFrame
    /\ IF queues[0].avail = NULL \/ queues[0].size = 0
       THEN ConcFault
       ELSE /\ local' = [local EXCEPT
                           ![WORKER].seen_avail2 = queues[0].avail,
                           ![WORKER].head =
                              avail_ring[0][ring_index(queues[0], queues[0].index)]]
            /\ queues' = [queues EXCEPT ![0].index = (queues[0].index + 1) % U16]
            /\ pending' = IF pending = <<>> THEN pending ELSE Tail(pending)
            /\ Goto(WORKER, "w_unlock")
            /\ UNCHANGED <<isr_status, dev_mutex, memVars, crashed, vcpu_io,
                           npub, hist>>

\* cnd_wait(&queue->avail_ring_cnd, &queue->mutex): the mutex is released
\* and the thread sleeps, in one step.
CndWait ==
    /\ ~crashed
    /\ pc[WORKER] = "w_wait"
    /\ queues' = [queues EXCEPT ![0].mutex = 0,
                                ![0].avail_ring_cnd = @ \cup {WORKER}]
    /\ Goto(WORKER, "w_sleep")
    /\ UNCHANGED <<isr_status, dev_mutex, memVars, crashed, vcpu_io, pending,
                   npub, local, hist>>
    /\ ConcFrame

\* mtx_unlock(&queue->mutex) at the end of virtio_queue_wait
WaitUnlock ==
    /\ ~crashed
    /\ pc[WORKER] = "w_unlock"
    /\ queues' = [queues EXCEPT ![0].mutex = 0]
    /\ Goto(WORKER, "w_handler")
    /\ UNCHANGED <<isr_status, dev_mutex, memVars, crashed, vcpu_io, pending,
                   npub, local, hist>>
    /\ ConcFrame

\* A worker that goes from the handler to the end of the iteration without
\* virtio_queue_return.
PollHandlerNoReturn ==
    /\ ~crashed
    /\ pc[WORKER] = "w_handler"
    /\ \E st \in {MX_OK, MX_ERR_STOP, MX_ERR_INTERNAL} :
          local' = [local EXCEPT ![WORKER].status = st]
    /\ Goto(WORKER, "w_after")
    /\ UNCHANGED <<isr_status, dev_mutex, queues, memVars, crashed, vcpu_io,
                   pending, npub, hist>>
    /\ ConcFrame

\* args->handler(queue, descriptor, &used, ctx): the device model's, with a
\* status of its choice.
PollHandler ==
    /\ ~crashed
    /\ pc[WORKER] = "w_handler"
    /\ \E st \in {MX_OK, MX_ERR_STOP, MX_ERR_INTERNAL} :
          local' = [local EXCEPT ![WORKER].status = st]
    /\ Goto(WORKER, "r_lock")
    /\ UNCHANGED <<isr_status, dev_mutex, queues, memVars, crashed, vcpu_io,
                   pending, npub, hist>>
    /\ ConcFrame

\* virtio_queue_return: mtx_lock(&queue->mutex)
ReturnLock ==
    /\ ~crashed
    /\ pc[WORKER] = "r_lock"
    /\ queues[0].mutex = 0
    /\ queues' = [queues EXCEPT ![0].mutex = WORKER]
    /\ Goto(WORKER, "r_write")
    /\ UNCHANGED <<isr_status, dev_mutex, memVars, crashed, vcpu_io, pending,
                   npub, local, hist>>
    /\ ConcFrame

\* used = &queue->used->ring[ring_index(queue, queue->used->idx)];
\* used->id = index; used->len = len; queue->used->idx++.
\* Through a used pointer that leaves guest memory the stores go to host
\* memory next to it, or fault.
ReturnWrite ==
    /\ ~crashed
    /\ pc[WORKER] = "r_write"
    /\ ConcFrame
    /\ IF queues[0].used = NULL \/ queues[0].size = 0
       THEN ConcFault
       ELSE IF ~InGuest(queues[0].used, PtrSize + queues[0].size * UsedElemSize)
       THEN \/ ConcFault
            \/ /\ local' = [local EXCEPT ![WORKER].seen_used = queues[0].used]
               /\ hist' = [hist EXCEPT !.wild_write = TRUE]
               /\ Goto(WORKER, "r_unlock")
               /\ UNCHANGED <<isr_status, dev_mutex, queues, memVars, crashed,
                              vcpu_io, pending, npub>>
       ELSE /\ local' = [local EXCEPT ![WORKER].seen_used = queues[0].used]
            /\ used_ring' = [used_ring EXCEPT
                               ![0][ring_index(queues[0], used_idx[0])] =
                                  [id |-> local[WORKER].head, len |-> 0]]
            /\ used_idx' = [used_idx EXCEPT ![0] = (used_idx[0] + 1) % U16]
            /\ Goto(WORKER, "r_unlock")
            /\ UNCHANGED <<isr_status, dev_mutex, queues, avail_idx, avail_ring,
                           crashed, vcpu_io, pending, npub, hist>>

\* A return that keeps queue->mutex while it goes on to the device mutex.
ReturnUnlockKeep ==
    /\ ~crashed
    /\ pc[WORKER] = "r_unlock"
    /\ Goto(WORKER, "r_devlock")
    /\ UNCHANGED <<isr_status, dev_mutex, queues, memVars, crashed, vcpu_io,
                   pending, npub, local, hist>>
    /\ ConcFrame

\* mtx_unlock(&queue->mutex)
ReturnUnlock ==
    /\ ~crashed
    /\ pc[WORKER] = "r_unlock"
    /\ queues' = [queues EXCEPT ![0].mutex = 0]
    /\ Goto(WORKER, "r_devlock")
    /\ UNCHANGED <<isr_status, dev_mutex, memVars, crashed, vcpu_io, pending,
                   npub, local, hist>>
    /\ ConcFrame

\* device = queue->virtio_device; mtx_lock(&device->mutex)
ReturnDevLock ==
    /\ ~crashed
    /\ pc[WORKER] = "r_devlock"
    /\ ConcFrame
    /\ IF queues[0].virtio_device = NULL
       THEN ConcFault
       ELSE /\ dev_mutex = 0
            /\ dev_mutex' = WORKER
            /\ Goto(WORKER, "r_isr")
            /\ UNCHANGED <<isr_status, queues, memVars, crashed, vcpu_io,
                           pending, npub, local, hist>>

\* device->isr_status |= VIRTIO_ISR_QUEUE
ReturnSetIsr ==
    /\ ~crashed
    /\ pc[WORKER] = "r_isr"
    /\ isr_status' = OrQueueBit(isr_status)
    /\ hist' = [hist EXCEPT !.bit_pending = TRUE, !.set_since_read = TRUE]
    /\ Goto(WORKER, "r_devunlock")
    /\ UNCHANGED <<dev_mutex, queues, memVars, crashed, vcpu_io, pending, npub,
                   local>>
    /\ ConcFrame

\* mtx_unlock(&device->mutex)
ReturnDevUnlock ==
    /\ ~crashed
    /\ pc[WORKER] = "r_devunlock"
    /\ dev_mutex' = 0
    /\ Goto(WORKER, "w_after")
    /\ UNCHANGED <<isr_status, queues, memVars, crashed, vcpu_io, pending, npub,
                   local, hist>>
    /\ ConcFrame

\* The end of an iteration: leave on MX_ERR_STOP or an error; otherwise
\* virtio_device_notify(args->queue->virtio_device), whose pci_interrupt
\* returns a status of the bus model's choice, and leave if it is an error.
PollAfter ==
    /\ ~crashed
    /\ pc[WORKER] = "w_after"
    /\ ConcFrame
    /\ IF local[WORKER].status # MX_OK
       THEN /\ local' = [local EXCEPT
                           ![WORKER].result =
                              IF local[WORKER].status = MX_ERR_STOP
                              THEN @ ELSE local[WORKER].status]
            /\ Goto(WORKER, "done")
            /\ UNCHANGED <<isr_status, dev_mutex, queues, memVars, crashed,
                           vcpu_io, pending, npub, hist>>
       ELSE IF queues[0].virtio_device = NULL
       THEN ConcFault
       ELSE /\ \E result \in {MX_OK, MX_ERR_INTERNAL} :
                  /\ local' = [local EXCEPT ![WORKER].result = result]
                  /\ Goto(WORKER, IF result = MX_OK THEN "w_lock" ELSE "done")
            /\ UNCHANGED <<isr_status, dev_mutex, queues, memVars, crashed,
                           vcpu_io, pending, npub, hist>>

\* The device model has created queue 0 and started its poll worker; the
\* guest has not written a register yet.
InitConc ==
    /\ InitCommon
    /\ num_queues = QueueSlots
    /\ queue_notify = FALSE
    /\ queues = [q \in QueueIds |-> FreshQueue(DefaultSize)]
    /\ avail_idx = [q \in QueueIds |-> 0]
    /\ avail_ring = [q \in QueueIds |-> [i \in 0 .. (DefaultSize - 1) |-> 0]]
    /\ pc = [t \in Threads |-> IF t = VCPU THEN "idle" ELSE "w_lock"]
    /\ local = [t \in Threads |-> IF t = VCPU THEN VcpuLocal0 ELSE WorkerLocal0]
    /\ hist = [isr_reads |-> 0, pfn_writes |-> 0, notifies |-> 0,
               set_since_read |-> FALSE, bit_pending |-> FALSE,
               validated |-> {Views(ZeroQueue)}, wild_write |-> FALSE]

NextConc ==
    \/ \E head \in Heads : ConcPublish(head)
    \/ IsrLock \/ IsrRead \/ IsrClear \/ IsrUnlock
    \/ \E pfn \in ConcPfns : SetPfnEnter(pfn)
    \/ SetPfnStore("pfn_desc", "pfn_avail")
    \/ SetPfnStore("pfn_avail", "pfn_used")
    \/ SetPfnStore("pfn_used", "pfn_check")
    \/ SetPfnCheck
    \/ SignalLock \/ SignalCheck \/ SignalUnlock
    \/ WaitLock \/ WaitCount \/ WaitTake \/ CndWait \/ WaitUnlock
    \/ PollHandler
    \/ ReturnLock \/ ReturnWrite \/ ReturnUnlock
    \/ ReturnDevLock \/ ReturnSetIsr \/ ReturnDevUnlock
    \/ PollAfter

SpecConc == InitConc /\ [][NextConc]_vars

\* ------------------------------- a blocked worker and a producer (SpecWait)
\* Queue 0 has its ring; the worker is in virtio_queue_wait; the guest
\* publishes and then writes QUEUE_NOTIFY, which ends in virtio_queue_signal.
\* The cursor starts at 0 or one short of the 16-bit wrap.
WaitStartIdx == {0, U16 - 1}

\* cnd_wait may return without a signal; the loop of virtio_queue_wait then
\* tests the ring again.
SpuriousWake ==
    /\ ~crashed
    /\ pc[WORKER] = "w_sleep"
    /\ queues' = [queues EXCEPT ![0].avail_ring_cnd = @ \ {WORKER}]
    /\ Goto(WORKER, "w_relock")
    /\ UNCHANGED <<isr_status, dev_mutex, memVars, crashed, vcpu_io, pending,
                   npub, local, hist>>
    /\ ConcFrame

\* The producer's QUEUE_NOTIFY write comes after its publish.
ProducerSignal == npub > 0 /\ SignalLock

InitWait ==
    /\ InitCommon
    /\ num_queues = QueueSlots
    /\ queue_notify = FALSE
    /\ \E n \in RingSizes, start \in WaitStartIdx :
          /\ queues = [q \in QueueIds |->
                         [SetPfnFields(FreshQueue(n), 0) EXCEPT !.index = start]]
          /\ avail_idx = [q \in QueueIds |-> start]
          /\ avail_ring = [q \in QueueIds |-> [i \in 0 .. (n - 1) |-> 0]]
    /\ pc = [t \in Threads |-> IF t = VCPU THEN "idle" ELSE "w_lock"]
    /\ local = [t \in Threads |-> IF t = VCPU THEN VcpuLocal0 ELSE WorkerLocal0]
    /\ hist = [isr_reads |-> 0, pfn_writes |-> 0, notifies |-> 0,
               set_since_read |-> FALSE, bit_pending |-> FALSE,
               validated |-> {Views(queues[0])}, wild_write |-> FALSE]

\* The steps of the worker inside virtio_queue_wait.
WaitSteps == WaitLock \/ WaitCount \/ WaitTake \/ CndWait \/ WaitUnlock

\* The steps of the vCPU thread inside virtio_queue_signal.
SignalSteps == ProducerSignal \/ SignalCheck \/ SignalUnlock

NextWait ==
    \/ \E head \in Heads : ConcPublish(head)
    \/ ProducerSignal \/ SignalCheck \/ SignalUnlock
    \/ WaitLock \/ WaitCount \/ WaitTake \/ CndWait \/ WaitUnlock
    \/ SpuriousWake

\* A runnable thread is scheduled: each thread that can take a step
\* eventually takes one.
SpecWait ==
    /\ InitWait
    /\ [][NextWait]_vars
    /\ WF_vars(WaitSteps)
    /\ WF_vars(SignalSteps)

\* ------------------------------------- the poll worker's loop (SpecPoll)
\* Queue 0 has its ring and a poll worker (virtio_queue_poll_task); the
\* guest publishes, writes QUEUE_NOTIFY and reads ISR_STATUS. The ring starts
\* empty or with one buffer published, at index 0 or two short of the 16-bit
\* wrap.
PrePublished == {0, 1}

InitPoll ==
    /\ features = 0 /\ status = 0 /\ queue_sel = 0 /\ isr_status = 0
    /\ dev_mutex = 0
    /\ num_queues = QueueSlots
    /\ queue_notify = FALSE
    /\ guest_physmem_addr \in GuestBases
    /\ guest_physmem_size \in GuestSizes
    /\ \E n \in RingSizes, start \in StartIdx, pre \in PrePublished :
          /\ queues = [q \in QueueIds |->
                         [SetPfnFields(FreshQueue(n), 0) EXCEPT !.index = start]]
          /\ avail_idx = [q \in QueueIds |-> (start + pre) % U16]
          /\ avail_ring = [q \in QueueIds |-> [i \in 0 .. (n - 1) |-> 0]]
          /\ used_ring = [q \in QueueIds |->
                            [i \in 0 .. (n - 1) |-> [id |-> 0, len |-> 0]]]
          /\ pending = [i \in 1 .. pre |-> 0]
    /\ used_idx = [q \in QueueIds |-> 0]
    /\ desc_table = <<>>
    /\ crashed = FALSE
    /\ last_op = NoOp /\ ret = MX_OK /\ vcpu_io = NoIo /\ events = <<>>
    /\ head_out = 0
    /\ failed_q = {}
    /\ npub = 0
    /\ pc = [t \in Threads |-> IF t = VCPU THEN "idle" ELSE "w_lock"]
    /\ local = [t \in Threads |-> IF t = VCPU THEN VcpuLocal0 ELSE WorkerLocal0]
    /\ hist = [isr_reads |-> 0, pfn_writes |-> 0, notifies |-> 0,
               set_since_read |-> FALSE, bit_pending |-> FALSE,
               validated |-> {Views(queues[0])}, wild_write |-> FALSE]

NextPoll ==
    \/ \E head \in Heads : ConcPublish(head)
    \/ IsrLock \/ IsrRead \/ IsrClear \/ IsrUnlock
    \/ SignalLock \/ SignalCheck \/ SignalUnlock
    \/ WaitLock \/ WaitCount \/ WaitTake \/ CndWait \/ WaitUnlock
    \/ SpuriousWake
    \/ PollHandler
    \/ ReturnLock \/ ReturnWrite \/ ReturnUnlock
    \/ ReturnDevLock \/ ReturnSetIsr \/ ReturnDevUnlock
    \/ PollAfter

SpecPoll == InitPoll /\ [][NextPoll]_vars

\* --------------------------------- the descriptor-chain walk (SpecWalk)
\* One device thread calls virtio_queue_handler and virtio_queue_read_desc on
\* queue 0, whose ring is set up and holds one published head; the guest may
\* rewrite a descriptor between any two statements of the walk.

\* Number of virtio_queue_handler calls, of handler invocations in one walk
\* (a bound of the model: a cyclic chain has no end), of guest rewrites and
\* of virtio_queue_read_desc calls in one behaviour.
MaxWalks == 2
MaxCalls == 3
MaxRewrites == 1
MaxReadDesc == 1
\* Capacity of queue 0 in SpecWalk, and the number of 16-byte slots of guest
\* memory from queue->desc on that the model keeps: the slots from WalkSize
\* on lie behind the descriptor table.
WalkSize == 2
TableSlots == 3

\* A uint64_t near 0 is its value; one near 2^64 is written as the negative
\* number it is in two's complement (-4096 is 2^64 - 4096), so that the sum
\* of such a number and a small one wraps as the uint64_t sum does.
U64Add(a, b) == a + b
U64Less(a, b) == IF (a < 0) = (b < 0) THEN a < b ELSE b < 0

Desc(addr, len, has_next, next) ==
    [addr |-> addr, len |-> len, has_next |-> has_next, next |-> next]

\* Descriptors the guest may have stored in slot i.
SlotDescs(i) ==
    IF i = 0
    THEN {Desc(0, 4096, FALSE, 0), Desc(0, 8192, TRUE, 1),
          Desc(8192, 8192, FALSE, 0), Desc(0 - 4096, 8192, FALSE, 0),
          Desc(4096, 4096, TRUE, 2)}
    ELSE IF i = 1
    THEN {Desc(8192, 4096, FALSE, 0), Desc(4096, 4096, TRUE, 0),
          Desc(4096, 12288, FALSE, 0)}
    ELSE {Desc(0, 4096, FALSE, 0)}

\* What the guest stores over a descriptor while the device walks.
RewriteDescs == {Desc(8192, 8192, FALSE, 0)}
\* Heads the guest may have published; lengths a handler reports by adding
\* them to *used.
WalkHeads == 0 .. (TableSlots - 1)
Reported == {1, 2}

\* A bounds test that leaves out the wrap of addr + len.
DescOutOfRangeNoWrap(d) == U64Less(guest_physmem_size, U64Add(d.addr, d.len))

\* end < desc->addr || end > mem_size, with end = desc->addr + desc->len
DescOutOfRange(d) ==
    LET end == U64Add(d.addr, d.len)
    IN  U64Less(end, d.addr) \/ U64Less(guest_physmem_size, end)

WalkFrame ==
    UNCHANGED <<features, status, queue_sel, num_queues, queue_notify,
                guest_physmem_addr, guest_physmem_size, dev_mutex, avail_idx,
                avail_ring, vcpu_io, events, head_out, failed_q, npub, last_op,
                crashed>>

WalkLocal0 == [head |-> 0, used_len |-> 0, desc_index |-> 0, cur |-> 0,
               used_idx0 |-> 0, used_ring0 |-> <<>>, isr0 |-> 0]

\* virtio_queue_handler up to its loop: the two loads from the device,
\* virtio_queue_next_avail, and the return when the ring is empty.
HandlerStart ==
    /\ pc = "h_idle"
    /\ hist.walks < MaxWalks
    /\ WalkFrame
    /\ UNCHANGED <<isr_status, used_idx, used_ring, desc_table>>
    /\ IF ring_avail_count(0) < 1
       THEN /\ ret' = MX_OK
            /\ hist' = [hist EXCEPT !.walks = @ + 1]
            /\ UNCHANGED <<queues, pending, pc, local>>
       ELSE LET head == avail_ring[0][ring_index(queues[0], queues[0].index)]
            IN  /\ queues' = [queues EXCEPT ![0].index = (queues[0].index + 1) % U16]
                /\ pending' = IF pending = <<>> THEN pending ELSE Tail(pending)
                /\ local' = [WalkLocal0 EXCEPT !.head = head, !.desc_index = head,
                                               !.used_idx0 = used_idx[0],
                                               !.used_ring0 = used_ring[0],
                                               !.isr0 = isr_status]
                /\ hist' = [hist EXCEPT !.walks = @ + 1, !.calls = <<>>,
                                        !.reported = <<>>,
                                        !.table0 = desc_table,
                                        !.rewritten = FALSE]
                /\ pc' = "h_check"
                /\ ret' = NoReturn

\* desc = &queue->desc[desc_index]; end = desc->addr + desc->len;
\* if (end < desc->addr || end > mem_size) return MX_ERR_OUT_OF_RANGE
HandlerCheck ==
    /\ pc = "h_check"
    /\ WalkFrame
    /\ UNCHANGED <<isr_status, queues, used_idx, used_ring, desc_table, pending>>
    /\ hist' = [hist EXCEPT
                  !.oob_index = @ \/ local.desc_index >= queues[0].size]
    /\ local' = [local EXCEPT !.cur = local.desc_index]
    /\ IF DescOutOfRange(desc_table[local.desc_index])
       THEN ret' = MX_ERR_OUT_OF_RANGE /\ pc' = "h_idle"
       ELSE ret' = ret /\ pc' = "h_call"

\* addr = mem_addr + desc->addr; status = handler(addr, desc->len,
\* desc->flags, &used_len, context); if (status != MX_OK) return status.
\* The descriptor's fields are loaded again for the call. The handler is the
\* caller's: it returns a status and adds the length it reports to *used.
HandlerInvoke(st, n) ==
    /\ pc = "h_call"
    /\ WalkFrame
    /\ UNCHANGED <<isr_status, queues, used_idx, used_ring, desc_table, pending>>
    /\ local' = [local EXCEPT !.used_len = @ + n]
    /\ IF st # MX_OK
       THEN ret' = st /\ pc' = "h_idle"
       ELSE ret' = ret /\ pc' = "h_next"

\* The call with its record in hist: which descriptor, and the address and
\* length the handler was given.
HandlerCall ==
    /\ Len(hist.calls) < MaxCalls
    /\ \E st \in {MX_OK, MX_ERR_INTERNAL}, n \in Reported :
          /\ HandlerInvoke(st, n)
          /\ hist' = [hist EXCEPT
                        !.calls = Append(@, [index |-> local.cur,
                                             addr |-> desc_table[local.cur].addr,
                                             len |-> desc_table[local.cur].len]),
                        !.reported = Append(@, n)]

\* desc_index = desc->next; } while (desc->flags & VRING_DESC_F_NEXT);
HandlerNext ==
    /\ pc = "h_next"
    /\ WalkFrame
    /\ UNCHANGED <<isr_status, queues, used_idx, used_ring, desc_table, pending,
                   hist, ret>>
    /\ local' = [local EXCEPT !.desc_index = desc_table[local.cur].next]
    /\ pc' = IF desc_table[local.cur].has_next THEN "h_check" ELSE "h_return"

\* A walk that sets the used length to what the last handler call reported.
HandlerReturnLast ==
    /\ pc = "h_return"
    /\ WalkFrame
    /\ UNCHANGED <<queues, desc_table, pending, hist, local>>
    /\ used_ring' = [used_ring EXCEPT
                       ![0][ring_index(queues[0], used_idx[0])] =
                          [id |-> local.head,
                           len |-> hist.reported[Len(hist.reported)]]]
    /\ used_idx' = [used_idx EXCEPT ![0] = (used_idx[0] + 1) % U16]
    /\ isr_status' = OrQueueBit(isr_status)
    /\ ret' = IF ring_avail_count(0) > 0 THEN MX_ERR_NEXT ELSE MX_OK
    /\ pc' = "h_idle"

\* virtio_queue_return(queue, head, used_len);
\* return ring_avail_count(queue) > 0 ? MX_ERR_NEXT : MX_OK
HandlerReturn ==
    /\ pc = "h_return"
    /\ WalkFrame
    /\ UNCHANGED <<queues, desc_table, pending, hist, local>>
    /\ used_ring' = [used_ring EXCEPT
                       ![0][ring_index(queues[0], used_idx[0])] =
                          [id |-> local.head, len |-> local.used_len]]
    /\ used_idx' = [used_idx EXCEPT ![0] = (used_idx[0] + 1) % U16]
    /\ isr_status' = OrQueueBit(isr_status)
    /\ ret' = IF ring_avail_count(0) > 0 THEN MX_ERR_NEXT ELSE MX_OK
    /\ pc' = "h_idle"

\* virtio_queue_read_desc(queue, desc_index, out) up to its bounds test.
ReadDescCheck(desc_index) ==
    /\ pc = "h_idle"
    /\ hist.read_descs < MaxReadDesc
    /\ WalkFrame
    /\ UNCHANGED <<isr_status, queues, used_idx, used_ring, desc_table, pending>>
    /\ hist' = [hist EXCEPT !.read_descs = @ + 1,
                            !.oob_index = @ \/ desc_index >= queues[0].size]
    /\ local' = [local EXCEPT !.cur = desc_index]
    /\ IF DescOutOfRange(desc_table[desc_index])
       THEN ret' = MX_ERR_OUT_OF_RANGE /\ pc' = "h_idle"
       ELSE ret' = NoReturn /\ pc' = "rd_copy"

\* out->addr = guest_paddr_to_host_vaddr(device, desc.addr); out->len =
\* desc.len; ...; return MX_OK: desc is a volatile reference, the fields are
\* loaded again.
ReadDescCopy ==
    /\ pc = "rd_copy"
    /\ WalkFrame
    /\ UNCHANGED <<isr_status, queues, used_idx, used_ring, desc_table, pending,
                   local>>
    /\ hist' = [hist EXCEPT
                  !.outs = Append(@, [index |-> local.cur,
                                      addr |-> desc_table[local.cur].addr,
                                      len |-> desc_table[local.cur].len])]
    /\ ret' = MX_OK
    /\ pc' = "h_idle"

\* The guest stores a descriptor over slot i while the device is inside one
\* of the two calls.
GuestRewrite(i, d) ==
    /\ pc # "h_idle"
    /\ hist.rewrites < MaxRewrites
    /\ desc_table[i] # d
    /\ desc_table' = [desc_table EXCEPT ![i] = d]
    /\ hist' = [hist EXCEPT !.rewrites = @ + 1, !.rewritten = TRUE]
    /\ WalkFrame
    /\ UNCHANGED <<isr_status, queues, used_idx, used_ring, pending, ret, pc,
                   local>>

\* Queue 0 with its ring, one head published, any descriptor table.
InitWalk ==
    /\ features = 0 /\ status = 0 /\ queue_sel = 0 /\ isr_status = 0
    /\ dev_mutex = 0
    /\ num_queues = QueueSlots
    /\ queue_notify = FALSE
    /\ guest_physmem_addr \in GuestBases
    /\ guest_physmem_size \in GuestSizes
    /\ queues = [q \in QueueIds |-> SetPfnFields(FreshQueue(WalkSize), 0)]
    /\ \E head \in WalkHeads :
          /\ avail_ring = [q \in QueueIds |->
                             [i \in 0 .. (WalkSize - 1) |-> IF i = 0 THEN head ELSE 0]]
          /\ pending = <<head>>
    /\ avail_idx = [q \in QueueIds |-> 1]
    /\ used_idx = [q \in QueueIds |-> 0]
    /\ used_ring = [q \in QueueIds |->
                      [i \in 0 .. (WalkSize - 1) |-> [id |-> 0, len |-> 0]]]
    /\ desc_table \in [0 .. (TableSlots - 1) -> UNION {SlotDescs(i) : i \in 0 .. (TableSlots - 1)}]
    /\ \A i \in 0 .. (TableSlots - 1) : desc_table[i] \in SlotDescs(i)
    /\ crashed = FALSE
    /\ last_op = NoOp /\ ret = MX_OK /\ vcpu_io = NoIo /\ events = <<>>
    /\ head_out = 0
    /\ failed_q = {}
    /\ npub = 1
    /\ pc = "h_idle"
    /\ local = WalkLocal0
    /\ hist = [walks |-> 0, calls |-> <<>>, reported |-> <<>>, outs |-> <<>>,
               read_descs |-> 0, rewrites |-> 0, rewritten |-> FALSE,
               oob_index |-> FALSE, table0 |-> desc_table]

NextWalk ==
    \/ HandlerStart \/ HandlerCheck \/ HandlerCall \/ HandlerNext
    \/ HandlerReturn
    \/ \E i \in 0 .. (TableSlots - 1) : ReadDescCheck(i)
    \/ ReadDescCopy
    \/ \E i \in 0 .. (WalkSize - 1), d \in RewriteDescs : GuestRewrite(i, d)

SpecWalk == InitWalk /\ [][NextWalk]_vars

\* ------------------------- virtio_queue_handler on a busy ring (SpecHandle)
\* One device thread calls virtio_queue_handler on queue 0 while the guest
\* publishes. The ring starts with zero, one or two heads published, at index
\* 0 or two short of the 16-bit wrap; every published head is the same. The
\* handler reports no bytes; no record of its calls is kept, and no bound is
\* put on their number.
HandlePre == {0, 1, 2}

\* status = handler(...) for a handler that adds nothing to *used.
HandlerCallQuiet ==
    /\ \E st \in {MX_OK, MX_ERR_INTERNAL} : HandlerInvoke(st, 0)
    /\ UNCHANGED hist

\* The guest publishes the head its ring already holds.
HandlePublish == GuestPublish(avail_ring[0][0])

InitHandle ==
    /\ features = 0 /\ status = 0 /\ queue_sel = 0 /\ isr_status = 0
    /\ dev_mutex = 0
    /\ num_queues = QueueSlots
    /\ queue_notify = FALSE
    /\ guest_physmem_addr \in GuestBases
    /\ guest_physmem_size \in GuestSizes
    /\ \E start \in StartIdx, pre \in HandlePre, head \in WalkHeads :
          /\ queues = [q \in QueueIds |->
                         [SetPfnFields(FreshQueue(WalkSize), 0) EXCEPT !.index = start]]
          /\ avail_idx = [q \in QueueIds |-> (start + pre) % U16]
          /\ avail_ring = [q \in QueueIds |-> [i \in 0 .. (WalkSize - 1) |-> head]]
          /\ pending = [i \in 1 .. pre |-> head]
          /\ npub = pre
    /\ used_idx = [q \in QueueIds |-> 0]
    /\ used_ring = [q \in QueueIds |->
                      [i \in 0 .. (WalkSize - 1) |-> [id |-> 0, len |-> 0]]]
    /\ desc_table \in [0 .. (TableSlots - 1) -> UNION {SlotDescs(i) : i \in 0 .. (TableSlots - 1)}]
    /\ \A i \in 0 .. (TableSlots - 1) : desc_table[i] \in SlotDescs(i)
    /\ crashed = FALSE
    /\ last_op = NoOp /\ ret = MX_OK /\ vcpu_io = NoIo /\ events = <<>>
    /\ head_out = 0
    /\ failed_q = {}
    /\ pc = "h_idle"
    /\ local = WalkLocal0
    /\ hist = [walks |-> 0, calls |-> <<>>, reported |-> <<>>, outs |-> <<>>,
               read_descs |-> 0, rewrites |-> 0, rewritten |-> FALSE,
               oob_index |-> FALSE, table0 |-> desc_table]

\* The steps of the device thread inside virtio_queue_handler.
HandleSteps ==
    HandlerStart \/ HandlerCheck \/ HandlerCallQuiet \/ HandlerNext \/ HandlerReturn

NextHandle ==
    \/ HandlerStart \/ HandlerCheck \/ HandlerCallQuiet \/ HandlerNext
    \/ HandlerReturn
    \/ HandlePublish

\* The device thread is scheduled: it takes its next step.
SpecHandle == InitHandle /\ [][NextHandle]_vars /\ WF_vars(HandleSteps)

\* ------------------------------- a queue in use and its registers (SpecUse)
\* Queue 0 with its ring set up: the guest publishes buffers and writes
\* QUEUE_SIZE and QUEUE_PFN, the device takes heads and returns them.

\* QUEUE_SIZE values the guest writes to a ring in use: zero, not a power of
\* two, and the default (larger than the smallest ring).
UseSizes == {0, 3, DefaultSize}
UseLen == 8

\* virtio_queue_return(queue, index, len) on queue 0, from call to return.
\* A slot behind the ring's last entry is memory the model does not hold.
virtio_queue_return(index, len) ==
    /\ ~crashed
    /\ used_idx[0] < MaxPublish
    /\ last_op' = [kind |-> "return", port |-> "none", size |-> 0]
    /\ UNCHANGED <<features, status, queue_sel, num_queues, queue_notify,
                   guest_physmem_addr, guest_physmem_size, dev_mutex, queues,
                   avail_idx, avail_ring, desc_table, ret, vcpu_io, events,
                   head_out, failed_q, pending, npub, concVars>>
    /\ IF queues[0].used = NULL \/ queues[0].size = 0
       THEN /\ crashed' = TRUE
            /\ UNCHANGED <<used_idx, used_ring, isr_status>>
       ELSE /\ LET slot == ring_index(queues[0], used_idx[0])
               IN  used_ring' =
                      IF slot \in DOMAIN used_ring[0]
                      THEN [used_ring EXCEPT ![0][slot] = [id |-> index, len |-> len]]
                      ELSE used_ring
            /\ used_idx' = [used_idx EXCEPT ![0] = (used_idx[0] + 1) % U16]
            /\ IF queues[0].virtio_device = NULL
               THEN crashed' = TRUE /\ UNCHANGED isr_status
               ELSE isr_status' = OrQueueBit(isr_status) /\ UNCHANGED crashed

InitUse ==
    /\ features = 0 /\ status = 0 /\ queue_sel = 0 /\ isr_status = 0
    /\ dev_mutex = 0
    /\ num_queues = QueueSlots
    /\ queue_notify = FALSE
    /\ guest_physmem_addr \in GuestBases
    /\ guest_physmem_size \in GuestSizes
    /\ \E n \in RingSizes :
          /\ queues = [q \in QueueIds |-> SetPfnFields(FreshQueue(n), 0)]
          /\ avail_ring = [q \in QueueIds |-> [i \in 0 .. (n - 1) |-> 0]]
          /\ used_ring = [q \in QueueIds |->
                            [i \in 0 .. (n - 1) |-> [id |-> 0, len |-> 0]]]
    /\ avail_idx = [q \in QueueIds |-> 0]
    /\ used_idx = [q \in QueueIds |-> 0]
    /\ desc_table = <<>>
    /\ crashed = FALSE
    /\ last_op = NoOp /\ ret = MX_OK /\ vcpu_io = NoIo /\ events = <<>>
    /\ head_out = 0
    /\ failed_q = {}
    /\ pending = <<>>
    /\ npub = 0
    /\ pc = <<>> /\ local = <<>> /\ hist = <<>>

NextUse ==
    \/ \E head \in Heads : GuestPublish(head)
    \/ virtio_queue_next_avail
    \/ virtio_queue_return(head_out, UseLen)
    \/ \E val \in UseSizes :
          virtio_pci_legacy_write(0, "QUEUE_SIZE", [access_size |-> 2, val |-> val])
    \/ \E pfn \in Pfns :
          virtio_pci_legacy_write(0, "QUEUE_PFN", [access_size |-> 4, val |-> pfn])

SpecUse == InitUse /\ [][NextUse]_vars

\* ------------------------------------- two returns side by side (SpecRet)
\* Two device threads call virtio_queue_return on queue 0, whose ring is set
\* up. used->idx starts at 0 or one short of the 16-bit wrap.

\* Number of virtio_queue_return calls of each thread in one behaviour.
MaxReturns == 1
RetStartIdx == {0, U16 - 1}
RetLens == {0, 8}

RetFrame ==
    UNCHANGED <<features, status, queue_sel, num_queues, queue_notify,
                guest_physmem_addr, guest_physmem_size, avail_idx, avail_ring,
                desc_table, vcpu_io, events, head_out, failed_q, npub, last_op,
                ret, pending>>

RetLocal0 == [index |-> 0, len |-> 0, slot |-> 0, calls |-> 0]

\* Thread t calls virtio_queue_return(queue, index, len).
RetCall(t, index, len) ==
    /\ ~crashed
    /\ pc[t] = "idle"
    /\ local[t].calls < MaxReturns
    /\ local' = [local EXCEPT ![t] = [index |-> index, len |-> len, slot |-> 0,
                                      calls |-> local[t].calls + 1]]
    /\ Goto(t, "r_lock")
    /\ UNCHANGED <<isr_status, dev_mutex, queues, used_idx, used_ring, crashed,
                   hist>>
    /\ RetFrame

\* A return that does not take queue->mutex.
RetLockNoMutex(t) ==
    /\ ~crashed
    /\ pc[t] = "r_lock"
    /\ Goto(t, "r_slot")
    /\ UNCHANGED <<isr_status, dev_mutex, queues, used_idx, used_ring, crashed,
                   local, hist>>
    /\ RetFrame

\* mtx_lock(&queue->mutex)
RetLock(t) ==
    /\ ~crashed
    /\ pc[t] = "r_lock"
    /\ queues[0].mutex = 0
    /\ queues' = [queues EXCEPT ![0].mutex = t]
    /\ Goto(t, "r_slot")
    /\ UNCHANGED <<isr_status, dev_mutex, used_idx, used_ring, crashed, local,
                   hist>>
    /\ RetFrame

\* used = &queue->used->ring[ring_index(queue, queue->used->idx)]
RetSlot(t) ==
    /\ ~crashed
    /\ pc[t] = "r_slot"
    /\ RetFrame
    /\ UNCHANGED <<isr_status, dev_mutex, queues, used_idx, used_ring, hist>>
    /\ IF queues[0].used = NULL \/ queues[0].size = 0
       THEN crashed' = TRUE /\ UNCHANGED <<pc, local>>
       ELSE /\ local' = [local EXCEPT
                           ![t].slot = ring_index(queues[0], used_idx[0])]
            /\ Goto(t, "r_store")
            /\ UNCHANGED crashed

\* used->id = index; used->len = len; queue->used->idx++
RetStore(t) ==
    /\ ~crashed
    /\ pc[t] = "r_store"
    /\ used_ring' = [used_ring EXCEPT
                       ![0][local[t].slot] =
                          [id |-> local[t].index, len |-> local[t].len]]
    /\ used_idx' = [used_idx EXCEPT ![0] = (used_idx[0] + 1) % U16]
    /\ hist' = [hist EXCEPT
                  !.writes = Append(@, [thread |-> t, slot |-> local[t].slot,
                                        idx |-> used_idx[0],
                                        id |-> local[t].index,
                                        len |-> local[t].len,
                                        owner |-> queues[0].mutex])]
    /\ Goto(t, "r_unlock")
    /\ UNCHANGED <<isr_status, dev_mutex, queues, crashed, local>>
    /\ RetFrame

\* mtx_unlock(&queue->mutex)
RetUnlock(t) ==
    /\ ~crashed
    /\ pc[t] = "r_unlock"
    /\ queues' = [queues EXCEPT ![0].mutex = 0]
    /\ Goto(t, "r_devlock")
    /\ UNCHANGED <<isr_status, dev_mutex, used_idx, used_ring, crashed, local,
                   hist>>
    /\ RetFrame

\* device = queue->virtio_device; mtx_lock(&device->mutex)
RetDevLock(t) ==
    /\ ~crashed
    /\ pc[t] = "r_devlock"
    /\ RetFrame
    /\ UNCHANGED <<isr_status, queues, used_idx, used_ring, local, hist>>
    /\ IF queues[0].virtio_device = NULL
       THEN crashed' = TRUE /\ UNCHANGED <<pc, dev_mutex>>
       ELSE /\ dev_mutex = 0
            /\ dev_mutex' = t
            /\ Goto(t, "r_isr")
            /\ UNCHANGED crashed

\* device->isr_status |= VIRTIO_ISR_QUEUE
RetSetIsr(t) ==
    /\ ~crashed
    /\ pc[t] = "r_isr"
    /\ isr_status' = OrQueueBit(isr_status)
    /\ Goto(t, "r_devunlock")
    /\ UNCHANGED <<dev_mutex, queues, used_idx, used_ring, crashed, local, hist>>
    /\ RetFrame

\* mtx_unlock(&device->mutex); the call returns.
RetDevUnlock(t) ==
    /\ ~crashed
    /\ pc[t] = "r_devunlock"
    /\ dev_mutex' = 0
    /\ hist' = [hist EXCEPT !.returned = @ + 1]
    /\ Goto(t, "idle")
    /\ UNCHANGED <<isr_status, queues, used_idx, used_ring, crashed, local>>
    /\ RetFrame

InitRet ==
    /\ features = 0 /\ status = 0 /\ queue_sel = 0 /\ isr_status = 0
    /\ dev_mutex = 0
    /\ num_queues = QueueSlots
    /\ queue_notify = FALSE
    /\ guest_physmem_addr \in GuestBases
    /\ guest_physmem_size \in GuestSizes
    /\ \E n \in RingSizes, start \in RetStartIdx :
          /\ queues = [q \in QueueIds |-> SetPfnFields(FreshQueue(n), 0)]
          /\ avail_ring = [q \in QueueIds |-> [i \in 0 .. (n - 1) |-> 0]]
          /\ used_ring = [q \in QueueIds |->
                            [i \in 0 .. (n - 1) |-> [id |-> 0, len |-> 0]]]
          /\ used_idx = [q \in QueueIds |-> start]
          /\ hist = [start |-> start, writes |-> <<>>, returned |-> 0]
    /\ avail_idx = [q \in QueueIds |-> 0]
    /\ desc_table = <<>>
    /\ crashed = FALSE
    /\ last_op = NoOp /\ ret = MX_OK /\ vcpu_io = NoIo /\ events = <<>>
    /\ head_out = 0
    /\ failed_q = {}
    /\ pending = <<>>
    /\ npub = 0
    /\ pc = [t \in Threads |-> "idle"]
    /\ local = [t \in Threads |-> RetLocal0]

NextRet ==
    \E t \in Threads :
       \/ \E index \in Heads, len \in RetLens : RetCall(t, index, len)
       \/ RetLock(t) \/ RetSlot(t) \/ RetStore(t) \/ RetUnlock(t)
       \/ RetDevLock(t) \/ RetSetIsr(t) \/ RetDevUnlock(t)

SpecRet == InitRet /\ [][NextRet]_vars

\* ======================================================= claims of SpecReg
\* The transport's own state, as a port access may change it.
regState == <<status, queue_sel, isr_status, queues, crashed, failed_q,
              features, num_queues, dev_mutex, memVars>>

\* The five ranges of queue record q for a ring of n entries, as host
\* addresses <<first, past-the-end>>, with the sizes set_pfn gives them.
Ranges(q, n) ==
    << <<q.desc, q.desc + n * DescSize>>,
       <<q.avail, q.avail + PtrSize + n * AvailElemSize>>,
       <<q.used_event, q.used_event + PtrSize>>,
       <<q.used, q.used + PtrSize + n * UsedElemSize>>,
       <<q.avail_event, q.avail_event + PtrSize>> >>

InGuestMemory(r) ==
    /\ guest_physmem_addr <= r[1]
    /\ r[1] <= r[2]
    /\ r[2] <= guest_physmem_addr + guest_physmem_size

\* The queue-pfn write of the selected queue with pfn, as a step.
SetPfnStep(pfn) ==
    /\ selected_queue # NoQueue
    /\ last_op' = [kind |-> "write", port |-> "QUEUE_PFN", size |-> 4]
    /\ virtio_pci_legacy_write(0, "QUEUE_PFN", [access_size |-> 4, val |-> pfn])

\* C3: a set_pfn that runs to its return returns MX_OK only if each of the
\* five ranges it stored lies inside [guest base, guest base + size); any
\* other return is MX_ERR_OUT_OF_RANGE and leaves every field of the queue
\* zero; and it returns that error whenever one of the ranges it computes
\* leaves guest memory.
C3_SetPfnChecked ==
    [][\A pfn \in Pfns :
          (last_op'.port = "QUEUE_PFN" /\ ~crashed' /\ SetPfnStep(pfn)) =>
             LET q == queues'[selected_queue]
                 n == queues[selected_queue].size
                 want == SetPfnFields(queues[selected_queue], pfn)
             IN  /\ ret' \in {MX_OK, MX_ERR_OUT_OF_RANGE}
                 /\ ret' = MX_OK =>
                       /\ q.pfn = pfn /\ q.size = n
                       /\ \A i \in 1 .. 5 : InGuestMemory(Ranges(q, n)[i])
                 /\ ret' = MX_ERR_OUT_OF_RANGE => q = ZeroQueue
                 /\ (\E i \in 1 .. 5 : ~InGuestMemory(Ranges(want, n)[i]))
                       => ret' = MX_ERR_OUT_OF_RANGE]_vars

\* C3's case: a set_pfn of a ring that leaves guest memory has been refused
\* and the selected queue is all zero.
C3_Witness ==
    /\ last_op = [kind |-> "write", port |-> "QUEUE_PFN", size |-> 4]
    /\ ret = MX_ERR_OUT_OF_RANGE
    /\ selected_queue \in failed_q
    /\ queues[selected_queue] = ZeroQueue

\* C4 (as claimed): on a queue whose set_pfn has failed with the bounds
\* error, a later set_pfn with a pfn whose layout fits succeeds and
\* repopulates every view.
C4_SetPfnRecovers ==
    [][\A pfn \in Pfns :
          (/\ SetPfnStep(pfn)
           /\ selected_queue \in failed_q
           /\ ~SetPfnOutOfRange(queues[selected_queue], pfn)) =>
             LET q == queues'[selected_queue]
             IN  /\ ret' = MX_OK
                 /\ ~crashed'
                 /\ q.desc # NULL /\ q.avail # NULL /\ q.used # NULL
                 /\ q.used_event # NULL /\ q.avail_event # NULL]_vars

FixedWritePorts == {"DRIVER_FEATURES", "DEVICE_STATUS", "QUEUE_PFN",
                    "QUEUE_SIZE", "QUEUE_SELECT", "QUEUE_NOTIFY"}

\* C8: a write of a fixed register with another width than the register's
\* (4, 1, 4, 2, 2, 2) returns MX_ERR_IO_DATA_INTEGRITY, changes nothing of
\* the device or its queues, calls no callback and signals no waiter. The
\* step's access is the one last_op' records: a write of BAR 0, its port and
\* its width.
C8_WrongWidthRejected ==
    [][(/\ last_op'.kind = "write"
        /\ last_op'.port \in FixedWritePorts
        /\ last_op'.size # Width(last_op'.port))
       => /\ ret' = MX_ERR_IO_DATA_INTEGRITY
          /\ events' = <<>>
          /\ UNCHANGED regState]_vars

\* C8's case (scenario D): a QUEUE_SIZE write was refused for its width while
\* a queue is selected, its capacity still the one it had.
C8_Witness ==
    /\ last_op.kind = "write"
    /\ last_op.port = "QUEUE_SIZE"
    /\ last_op.size # Width("QUEUE_SIZE")
    /\ ret = MX_ERR_IO_DATA_INTEGRITY
    /\ selected_queue # NoQueue
    /\ queues[selected_queue].size = DefaultSize

\* An access that was refused: an error status, and nothing changed.
Refused ==
    /\ ret' \notin {MX_OK, NoReturn}
    /\ events' = <<>>
    /\ UNCHANGED regState

\* C9 (as claimed): with no queue selected, a QUEUE_PFN read, a QUEUE_PFN
\* write, a QUEUE_SIZE read and a QUEUE_SIZE write each fail with an error and
\* change nothing.
C9_NoQueueRefused ==
    [][selected_queue = NoQueue =>
          /\ virtio_pci_legacy_read(0, "QUEUE_PFN") => Refused
          /\ virtio_pci_legacy_read(0, "QUEUE_SIZE") => Refused
          /\ \A val \in Pfns :
                virtio_pci_legacy_write(0, "QUEUE_PFN", [access_size |-> 4, val |-> val])
                   => Refused
          /\ \A val \in Sizes :
                virtio_pci_legacy_write(0, "QUEUE_SIZE", [access_size |-> 2, val |-> val])
                   => Refused]_vars

\* The calls a QUEUE_NOTIFY write makes, without the cnd_signal inside
\* virtio_queue_signal.
Calls(ev) == SelectSeq(ev, LAMBDA e : e # "cnd_signal")

\* C10 (as claimed): a 2-byte QUEUE_NOTIFY write with a valid index whose
\* callback (if any) succeeds calls the callback, then virtio_queue_signal,
\* then pci_interrupt if isr_status is nonzero, in this order.
C10_NotifyOrder ==
    [][\A val \in 0 .. QueueSlots :
          (/\ val < num_queues
           /\ last_op' = [kind |-> "write", port |-> "QUEUE_NOTIFY", size |-> 2]
           /\ virtio_pci_legacy_write(0, "QUEUE_NOTIFY", [access_size |-> 2, val |-> val])
           /\ ~(queue_notify /\ events' = <<"queue_notify">> /\ ret' # MX_OK))
          => Calls(events') =
                (IF queue_notify THEN <<"queue_notify">> ELSE <<>>)
                \o <<"signal">>
                \o (IF isr_status' > 0 THEN <<"pci_interrupt">> ELSE <<>>)]_vars


\* C18: a QUEUE_SELECT or QUEUE_NOTIFY write whose queue index is >= num_queues
\* is rejected with an error (MX_ERR_NOT_SUPPORTED when the access is 2 bytes
\* wide) and changes no state: queue_sel keeps its value, no device callback
\* is invoked, no waiter is signalled and no interrupt is raised. Hence
\* queue_sel < num_queues holds in every state of a behaviour that starts
\* with it.
C18_BadIndexRejected ==
    /\ [][\A port \in {"QUEUE_SELECT", "QUEUE_NOTIFY"}, val \in 0 .. QueueSlots :
             (/\ val >= num_queues
              /\ last_op'.kind = "write"
              /\ last_op'.port = port
              /\ virtio_pci_legacy_write(0, port, [access_size |-> last_op'.size,
                                                   val |-> val]))
             => /\ Refused
                /\ last_op'.size = 2 => ret' = MX_ERR_NOT_SUPPORTED]_vars
    /\ (queue_sel < num_queues) => [](queue_sel < num_queues)

\* A 2-byte QUEUE_SELECT write of an index that does not exist has been
\* refused while a queue is selected.
C18_Witness ==
    /\ num_queues = QueueSlots
    /\ selected_queue # NoQueue
    /\ last_op = [kind |-> "write", port |-> "QUEUE_SELECT", size |-> 2]
    /\ ret = MX_ERR_NOT_SUPPORTED
    /\ events = <<>>

\* C16 (as claimed): after a successful set_pfn of a queue of capacity N the
\* descriptor table is at pfn * 4096, the available ring 16 * N behind it,
\* the used-event cell at avail + 4 + 2 * N, the used ring at the next
\* multiple of 4096 behind the 2-byte used-event cell, and the avail-event
\* cell at used + 4 + 8 * N (guest-physical addresses).
C16_LegacyLayout ==
    [][\A pfn \in {p \in Pfns : p < PfnWrap} :
          (last_op'.port = "QUEUE_PFN" /\ SetPfnStep(pfn) /\ ret' = MX_OK) =>
             LET q == queues'[selected_queue]
                 N == q.size
                 desc == q.desc - guest_physmem_addr
                 avail == q.avail - guest_physmem_addr
                 used_event == q.used_event - guest_physmem_addr
                 used == q.used - guest_physmem_addr
                 avail_event == q.avail_event - guest_physmem_addr
             IN  /\ desc = pfn * 4096
                 /\ avail = desc + 16 * N
                 /\ used_event = avail + 4 + 2 * N
                 /\ used % 4096 = 0
                 /\ used >= used_event + 2
                 /\ used < used_event + 2 + 4096
                 /\ avail_event = used + 4 + 8 * N]_vars

\* ====================================================== claims of SpecRing
\* The two counters' distance as the 16-bit unsigned difference.
Distance16 == (avail_idx[0] - queues[0].index) % U16

\* C1 (as claimed): a next_available call returns "no work" and leaves the
\* cursor alone when avail.idx - cursor is zero; otherwise it returns the head
\* in slot (cursor mod capacity) and advances the cursor by one, so that the
\* heads come out in the order the guest published them.
C1_NextAvail ==
    [][(last_op' = [kind |-> "next_avail", port |-> "none", size |-> 0] /\ virtio_queue_next_avail)
          => IF Distance16 = 0
             THEN /\ ret' = MX_ERR_NOT_FOUND
                  /\ queues'[0].index = queues[0].index
             ELSE /\ ret' = MX_OK
                  /\ head_out' = avail_ring[0][queues[0].index % queues[0].size]
                  /\ queues'[0].index = (queues[0].index + 1) % U16
                  /\ head_out' = Head(pending)]_vars

\* C2 (as claimed): the available count is never negative and is the number
\* of entries published and not yet consumed.
C2_AvailCount ==
    /\ ring_avail_count(0) >= 0
    /\ ring_avail_count(0) = Len(pending)


\* ====================================================== claims of SpecConc

\* C5: what a reader of the ring pointers sees in its critical section is one
\* pointer set that has passed the bounds check of set_pfn: the two loads of
\* queue->avail in virtio_queue_next_avail_locked agree and are the avail
\* pointer of a checked set, and the used pointer virtio_queue_return writes
\* through is the used pointer of a checked set.
C5_AtomicPointers ==
    /\ pc[WORKER] = "w_unlock" =>
          /\ local[WORKER].seen_avail = local[WORKER].seen_avail2
          /\ \E v \in hist.validated : v.avail = local[WORKER].seen_avail
    /\ pc[WORKER] = "r_unlock" =>
          \E v \in hist.validated : v.used = local[WORKER].seen_used

\* C6: when the read of ISR_STATUS has stored its answer and cleared the
\* byte, isr_status is 0; the answer holds the queue-event bit if
\* virtio_queue_return has set it since the previous read, and is 0 if no
\* return has set it since the previous read.
C6_IsrReadClear ==
    pc[VCPU] = "isr_unlock" =>
        /\ isr_status = 0
        /\ local[VCPU].after_set =>
              /\ local[VCPU].isr_val # 0
              /\ local[VCPU].isr_val % (2 * VIRTIO_ISR_QUEUE) >= VIRTIO_ISR_QUEUE
        /\ ~local[VCPU].after_set => local[VCPU].isr_val = 0

\* The second of two reads with no return between them: the first answered
\* with the bit, this one with 0.
C6_Witness ==
    /\ pc[VCPU] = "isr_unlock"
    /\ hist.isr_reads = 2
    /\ local[VCPU].prev_val = VIRTIO_ISR_QUEUE
    /\ ~local[VCPU].after_set
    /\ local[VCPU].isr_val = 0
    /\ isr_status = 0

\* C7: a queue-event bit that virtio_queue_return has set and that no read
\* of ISR_STATUS has answered with is still set in isr_status, in every
\* interleaving of the read's steps with the return's.
C7_NoLostBit ==
    hist.bit_pending => isr_status % (2 * VIRTIO_ISR_QUEUE) >= VIRTIO_ISR_QUEUE

\* A read that answered 0 has finished while the return was held at
\* device->mutex, and the return's bit is now set for the next read.
C7_Witness ==
    /\ hist.isr_reads > 0
    /\ pc[VCPU] = "idle"
    /\ local[VCPU].isr_val = 0
    /\ pc[WORKER] = "r_devunlock"
    /\ hist.bit_pending
    /\ isr_status = VIRTIO_ISR_QUEUE


\* C21: no thread holds the mutex of a queue and the mutex of the device at
\* the same time (virtio_queue_return releases the first before it takes the
\* second, the ISR read takes only the second), so no thread waits for one of
\* the two locks while it holds the other; and the poll worker does not hold
\* the queue mutex while the device's handler runs.
C21_TwoLocks ==
    /\ \A t \in Threads : ~(queues[0].mutex = t /\ dev_mutex = t)
    /\ pc[WORKER] \in {"r_devlock", "r_isr", "r_devunlock"}
          => queues[0].mutex # WORKER
    /\ pc[VCPU] \in {"isr_read", "isr_clear", "isr_unlock"}
          => queues[0].mutex # VCPU
    /\ pc[VCPU] \in {"sig_check", "sig_unlock"} => dev_mutex # VCPU
    /\ pc[WORKER] = "w_handler" => queues[0].mutex # WORKER

\* Both locks are held, by different threads: the worker is inside the
\* device-mutex section of virtio_queue_return while the vCPU thread is
\* inside virtio_queue_signal.
C21_Witness ==
    /\ ~crashed
    /\ dev_mutex = WORKER
    /\ pc[WORKER] = "r_isr"
    /\ queues[0].mutex = VCPU
    /\ pc[VCPU] = "sig_check"

\* ====================================================== claims of SpecWait

\* C11 (as claimed): once the producer has published an entry and then
\* called virtio_queue_signal, the worker's virtio_queue_wait eventually
\* returns, with the head the guest stored in the slot of its cursor.
C11_NoLostWakeup ==
    (npub > 0 /\ hist.notifies > 0)
       ~> /\ pc[WORKER] = "w_handler"
          /\ local[WORKER].head =
                avail_ring[0][ring_index(queues[0], (queues[0].index - 1) % U16)]


\* ====================================================== claims of SpecPoll

\* The step of virtio_queue_poll_task that comes just before the worker
\* reaches a place of its loop.
PollPrev(label) ==
    CASE label = "w_unlock" -> "w_take"
      [] label = "w_handler" -> "w_unlock"
      [] label = "r_lock" -> "w_handler"
      [] label = "r_write" -> "r_lock"
      [] label = "r_unlock" -> "r_write"
      [] label = "r_devlock" -> "r_unlock"
      [] label = "r_isr" -> "r_devlock"
      [] label = "r_devunlock" -> "r_isr"
      [] label = "w_after" -> "r_devunlock"
      [] label = "done" -> "w_after"
      [] OTHER -> label

PollOrdered == {"w_unlock", "w_handler", "r_lock", "r_write", "r_unlock",
                "r_devlock", "r_isr", "r_devunlock", "w_after", "done"}

\* The used-ring entry the worker wrote last.
LastUsed ==
    used_ring[0][ring_index(queues[0], (used_idx[0] + U16 - 1) % U16)]

\* C22: in each iteration of virtio_queue_poll_task the worker waits for a
\* head, calls the handler, writes the used-ring entry of that head and sets
\* the queue bit of isr_status, and only then raises the interrupt; the loop
\* ends when the handler returns MX_ERR_STOP or an error or the interrupt
\* fails, and the worker then takes no further entry.
C22_PollLoop ==
    /\ [](pc[WORKER] \in {"r_unlock", "r_devlock", "r_isr", "r_devunlock", "w_after"}
             => LastUsed = [id |-> local[WORKER].head, len |-> 0])
    /\ [][LET a == pc[WORKER]
              b == pc'[WORKER]
          IN  /\ (b \in PollOrdered /\ b # a) => a = PollPrev(b)
              /\ (a = "w_take" /\ b = "w_unlock")
                    => /\ queues'[0].index = (queues[0].index + 1) % U16
                       /\ local'[WORKER].head =
                             avail_ring[0][ring_index(queues[0], queues[0].index)]
              /\ (a = "r_write" /\ b = "r_unlock")
                    => used_idx'[0] = (used_idx[0] + 1) % U16
              /\ (a = "r_isr" /\ b = "r_devunlock") => HasQueueBit(isr_status')
              /\ (a = "w_after" /\ b # a)
                    => IF local[WORKER].status # MX_OK
                       THEN b = "done"
                       ELSE \/ b = "w_lock" /\ local'[WORKER].result = MX_OK
                            \/ b = "done" /\ local'[WORKER].result # MX_OK
              /\ a = "done"
                    => b = "done" /\ queues'[0].index = queues[0].index
      ]_vars

\* The worker is at the end of its second iteration, about to raise the
\* interrupt, after the guest has read (and cleared) isr_status once.
C22_Witness ==
    /\ pc[WORKER] = "w_after"
    /\ local[WORKER].status = MX_OK
    /\ used_idx[0] = 2
    /\ hist.isr_reads > 0
    /\ HasQueueBit(isr_status)

\* ====================================================== claims of SpecWalk
RECURSIVE ChainFrom(_, _, _)
\* The indices a walk of table t visits from index i on, at most k links far.
ChainFrom(t, i, k) ==
    IF k > 0 /\ t[i].has_next
    THEN <<i>> \o ChainFrom(t, t[i].next, k - 1)
    ELSE <<i>>

Chain(t, head) == ChainFrom(t, head, TableSlots)

\* The true sum addr + len of descriptor d leaves [0, guest memory size].
Exceeds(d) == d.addr < 0 \/ d.addr + d.len > guest_physmem_size

\* The chain of t from head has an end, visits no index twice, stays below
\* the queue's capacity, and each of its descriptors lies in guest memory.
GoodChain(t, head) ==
    LET c == Chain(t, head)
    IN  /\ ~t[c[Len(c)]].has_next
        /\ \A j, k \in 1 .. Len(c) : j # k => c[j] # c[k]
        /\ \A j \in 1 .. Len(c) : c[j] < queues[0].size /\ ~Exceeds(t[c[j]])

RECURSIVE SumSeq(_)
SumSeq(q) == IF q = <<>> THEN 0 ELSE Head(q) + SumSeq(Tail(q))

\* C12: a virtio_queue_handler call over a chain that is acyclic, in bounds
\* and left alone by the guest, with a handler that returns MX_OK each time,
\* ends through virtio_queue_return; by then the handler has been called once
\* per descriptor of the chain in link order, and the one used-ring entry the
\* call writes is {id = head, len = sum of the reported lengths}.
C12_ChainWalk ==
    [][(/\ pc \in {"h_check", "h_call", "h_next", "h_return"}
        /\ pc' = "h_idle"
        /\ ~hist'.rewritten
        /\ GoodChain(hist.table0, local.head)
        /\ ret' # MX_ERR_INTERNAL)
       => /\ pc = "h_return"
          /\ [j \in 1 .. Len(hist.calls) |-> hist.calls[j].index]
                = Chain(hist.table0, local.head)
          /\ used_ring[0] = local.used_ring0
          /\ used_idx[0] = local.used_idx0
          /\ used_ring'[0] =
                [used_ring[0] EXCEPT ![used_idx[0] % queues[0].size] =
                    [id |-> local.head, len |-> SumSeq(hist.reported)]]
          /\ used_idx'[0] = used_idx[0] + 1]_vars

\* C12's case: a walk of a chain of two descriptors has ended with its entry
\* in the used ring.
C12_Witness ==
    /\ pc = "h_idle"
    /\ ~hist.rewritten
    /\ GoodChain(hist.table0, local.head)
    /\ Len(hist.calls) = 2
    /\ ret \in {MX_OK, MX_ERR_NEXT}
    /\ used_idx[0] = 1
    /\ used_ring[0][0] = [id |-> local.head, len |-> SumSeq(hist.reported)]

\* C13: when the walk comes to a descriptor whose addr + len wraps or lies
\* past the guest memory size, the call returns MX_ERR_OUT_OF_RANGE without
\* calling the handler for it, and the used ring, used->idx and isr_status
\* are as they were when the call began.
C13_OutOfRangeAborts ==
    [][(/\ pc = "h_check"
        /\ pc' # "h_check"
        /\ Exceeds(desc_table[local.desc_index]))
       => /\ ret' = MX_ERR_OUT_OF_RANGE
          /\ pc' = "h_idle"
          /\ hist'.calls = hist.calls
          /\ used_ring'[0] = local.used_ring0
          /\ used_idx'[0] = local.used_idx0
          /\ isr_status' = local.isr0]_vars

\* C13's case: the second descriptor of a chain was out of range; the
\* handler ran for the first only and nothing was returned to the guest.
C13_Witness ==
    /\ pc = "h_idle"
    /\ ret = MX_ERR_OUT_OF_RANGE
    /\ hist.read_descs = 0
    /\ Len(hist.calls) = 1
    /\ Exceeds(desc_table[local.desc_index])
    /\ used_idx[0] = 0
    /\ isr_status = 0

\* C14 (as claimed): every buffer handed to the handler by
\* virtio_queue_handler, and every buffer virtio_queue_read_desc returns,
\* has addr + len <= guest memory size.
C14_BuffersInBounds ==
    /\ \A j \in 1 .. Len(hist.calls) : ~Exceeds(hist.calls[j])
    /\ \A j \in 1 .. Len(hist.outs) : ~Exceeds(hist.outs[j])

\* C15 (as claimed): no descriptor index at or above the queue's capacity is
\* dereferenced.
C15_IndicesValidated == ~hist.oob_index

\* ======================================================= claims of SpecRet

\* C17: virtio_queue_return(index, len) writes the used-ring entry
\* {id = index, len = len} at slot used->idx mod size and increments used->idx
\* by exactly one, as one step under the queue mutex, and afterwards sets the
\* queue bit of isr_status; returns running side by side never write the same
\* slot, and used->idx advances by one for each of them.
C17_ReturnAtomic ==
    LET w == hist.writes
        n == queues[0].size
    IN  /\ used_idx[0] = (hist.start + Len(w)) % U16
        /\ \A j \in 1 .. Len(w) :
              /\ w[j].owner = w[j].thread
              /\ w[j].idx = (hist.start + j - 1) % U16
              /\ w[j].slot = w[j].idx % n
              /\ (Len(w) - j < n
                    => used_ring[0][w[j].slot] = [id |-> w[j].id, len |-> w[j].len])
        /\ \A j, k \in 1 .. Len(w) :
              (j < k /\ k - j < n) => w[j].slot # w[k].slot
        /\ \A t \in Threads :
              (pc[t] = "r_devunlock" \/ hist.returned > 0)
                 => HasQueueBit(isr_status)

\* Both threads have stored their entry before either call has returned, with
\* used->idx crossing the 16-bit wrap.
C17_Witness ==
    /\ Len(hist.writes) = 2
    /\ hist.returned = 0
    /\ hist.start = U16 - 1
    /\ hist.writes[1].thread # hist.writes[2].thread
    /\ used_idx[0] = 1

\* ======================================================= claims of SpecUse

\* struct vring_avail and struct vring_used start with two uint16_t (flags,
\* idx); the ring follows.
RingHeaderSize == 4

\* Slot s of the available ring lies in the range set_pfn validated for the
\* ring, which ends where the used-event cell starts.
AvailSlotValidated(q, s) ==
    q.avail + RingHeaderSize + (s + 1) * AvailElemSize <= q.used_event

\* Slot s of the used ring lies in the range set_pfn validated for the ring,
\* which ends where the avail-event cell starts.
UsedSlotValidated(q, s) ==
    q.used + RingHeaderSize + (s + 1) * UsedElemSize <= q.avail_event

\* C19 (as claimed): after a successful set_pfn, whatever the guest writes to
\* its registers later (QUEUE_SIZE included), every available-ring slot that
\* virtio_queue_next_avail reads and every used-ring slot that
\* virtio_queue_return writes lies inside the ranges the last successful
\* set_pfn validated, and ring_index never divides by zero.
C19_CapacityConsistent ==
    [][/\ (last_op'.kind = "next_avail" /\ ring_avail_count(0) >= 1)
          => /\ queues[0].size # 0
             /\ AvailSlotValidated(queues[0],
                                   ring_index(queues[0], queues[0].index))
       /\ (last_op'.kind = "return" /\ queues[0].used # NULL)
          => /\ queues[0].size # 0
             /\ UsedSlotValidated(queues[0], ring_index(queues[0], used_idx[0]))
      ]_vars

\* C20 (as claimed): the cursor queue->index only ever advances by one
\* (modulo 2^16); no operation sets it back.
C20_CursorNeverResets ==
    [][\A q \in QueueIds :
          \/ queues'[q].index = queues[q].index
          \/ queues'[q].index = (queues[q].index + 1) % U16]_vars

\* ==================================================== claims of SpecHandle

\* C23 (as claimed): virtio_queue_handler on an empty available ring returns
\* MX_OK and changes nothing (cursor, used ring, used->idx, isr_status; the
\* handler is not invoked); after a chain it has processed it returns
\* MX_ERR_NEXT if and only if published, unconsumed entries remain, and MX_OK
\* otherwise.
C23_MoreWork ==
    [][/\ (pc = "h_idle" /\ hist'.walks = hist.walks + 1 /\ Distance16 = 0)
          => /\ ret' = MX_OK
             /\ pc' = "h_idle"
             /\ UNCHANGED <<queues, used_ring, used_idx, isr_status>>
       /\ (pc = "h_return" /\ pc' = "h_idle")
          => ret' = (IF Distance16 > 0 THEN MX_ERR_NEXT ELSE MX_OK)
      ]_vars

\* C24 (as claimed): the descriptor-chain walk of virtio_queue_handler ends
\* for every content of the guest's descriptor table, given a handler that
\* returns: a walk that has started returns, also when the next links of
\* descriptors with VRING_DESC_F_NEXT form a cycle.
C24_WalkTerminates == (pc # "h_idle") ~> (pc = "h_idle")

====
